---------------------------- MODULE Spec2Model ----------------------------
(***************************************************************************)
(* The tabular bulk-import engine of it-asset-manager                      *)
(* (app/services/import_service.py and its callers): upload intake, the    *)
(* file reader's path validation, the per-row transformation of asset and  *)
(* user imports, and the background wrapper that drives an import job      *)
(* through its lifecycle on one database session.                          *)
(*                                                                         *)
(* Strings are sequences of one-character strings, so that lower(),        *)
(* strip(), the regular expressions of _normalize_header and startswith()  *)
(* are computed character by character.                                    *)
(***************************************************************************)
EXTENDS Integers, Sequences, FiniteSets, TLC

VARIABLES
    jobs,      \* the Job table (committed rows): job id -> row, or NoJob
    disk,      \* names of the files present in UPLOAD_DIR
    up,        \* the create_import_job call in progress / its outcome
    db,        \* the committed tables: sets, defs, types, assets, users
    task,      \* per background task: position, session, locals
    envFails,  \* database failures injected so far
    nexec,     \* executions triggered so far
    hist,      \* what each execution of execute_import ended with
    pathIn,    \* the file_path handed to _read_file
    pathOut,   \* what _read_file did with it
    rowIn,     \* one record, its mapping and the statuses handed to the row code
    rowOut,    \* what the row code produced
    anIn,      \* the analyze request (kind, use_ai), the provider's settings and
               \* answer, and the answers it gave to the calls made (0: not asked)
    anOut,     \* the reports the analyze calls returned, in order
    hdrIn,     \* a column header of an uploaded file
    hdrOut     \* the keys analysis and execution derived from it

vars == <<jobs, disk, up, db, task, envFails, nexec, hist, pathIn, pathOut,
          rowIn, rowOut, anIn, anOut, hdrIn, hdrOut>>

-----------------------------------------------------------------------------
(* Python strings                                                          *)

None == <<"~None">>

UpperChars == <<"A","B","C","D","E","F","G","H","I","J","K","L","M",
                "N","O","P","Q","R","S","T","U","V","W","X","Y","Z">>
LowerChars == <<"a","b","c","d","e","f","g","h","i","j","k","l","m",
                "n","o","p","q","r","s","t","u","v","w","x","y","z">>
Digits == {"0","1","2","3","4","5","6","7","8","9"}

Range(s) == {s[i] : i \in DOMAIN s}

LowerChar(c) ==
    IF \E i \in DOMAIN UpperChars : UpperChars[i] = c
    THEN LowerChars[CHOOSE i \in DOMAIN UpperChars : UpperChars[i] = c]
    ELSE c

\* str.lower()
Lower(s) == [i \in DOMAIN s |-> LowerChar(s[i])]

IsSpace(c) == c = " "

RECURSIVE LStrip(_)
LStrip(s) == IF s # <<>> /\ IsSpace(s[1]) THEN LStrip(Tail(s)) ELSE s

RECURSIVE RStrip(_)
RStrip(s) ==
    IF s # <<>> /\ IsSpace(s[Len(s)]) THEN RStrip(SubSeq(s, 1, Len(s) - 1)) ELSE s

\* str.strip()
Strip(s) == RStrip(LStrip(s))

RECURSIVE StripChar(_, _)
\* str.strip(c)
StripChar(s, c) ==
    IF s # <<>> /\ s[1] = c THEN StripChar(Tail(s), c)
    ELSE IF s # <<>> /\ s[Len(s)] = c THEN StripChar(SubSeq(s, 1, Len(s) - 1), c)
    ELSE s

\* sub in s
Contains(s, sub) ==
    \E i \in 1..(Len(s) - Len(sub) + 1) : SubSeq(s, i, i + Len(sub) - 1) = sub

\* s.startswith(p)
StartsWith(s, p) == Len(p) <= Len(s) /\ SubSeq(s, 1, Len(p)) = p

RECURSIVE Flatten(_)
Flatten(ss) == IF ss = <<>> THEN <<>> ELSE Head(ss) \o Flatten(Tail(ss))

-----------------------------------------------------------------------------
(* File reader: _validate_safe_path and _read_file                         *)

MaxPathTokens == 4

\* The pieces file paths are put together from.
PathTokens ==
    { <<"/">>, <<".", ".">>, <<":">>, <<"s","r","v">>, <<"e","t","c">>,
      <<"u","p","l","o","a","d","s">>, <<"_","e","v","i","l">>,
      <<"f",".","c","s","v">> }

\* The process's working directory; UPLOAD_DIR defaults to "uploads" under it.
Cwd == << <<"s","r","v">> >>

UPLOAD_DIR == Cwd \o << <<"u","p","l","o","a","d","s">> >>

\* The regular files of the file system (is_file()).
FileSystem ==
    { << <<"f",".","c","s","v">> >>,
      << <<"e","t","c">>, <<"f",".","c","s","v">> >>,
      Cwd \o << <<"f",".","c","s","v">> >>,
      UPLOAD_DIR \o << <<"f",".","c","s","v">> >>,
      Cwd \o << <<"u","p","l","o","a","d","s","_","e","v","i","l">>,
                <<"f",".","c","s","v">> >> }

RECURSIVE SplitSlash(_, _)
\* The "/"-separated components of s (cur is the component being read).
SplitSlash(s, cur) ==
    IF s = <<>> THEN (IF cur = <<>> THEN <<>> ELSE <<cur>>)
    ELSE IF s[1] = "/"
         THEN (IF cur = <<>> THEN <<>> ELSE <<cur>>) \o SplitSlash(Tail(s), <<>>)
         ELSE SplitSlash(Tail(s), Append(cur, s[1]))

RECURSIVE Normalise(_, _)
\* Fold ".." and "." out of the components (acc is the path built so far).
Normalise(parts, acc) ==
    IF parts = <<>> THEN acc
    ELSE IF Head(parts) = <<".">> THEN Normalise(Tail(parts), acc)
    ELSE IF Head(parts) = <<".", ".">>
         THEN Normalise(Tail(parts),
                        IF acc = <<>> THEN acc ELSE SubSeq(acc, 1, Len(acc) - 1))
         ELSE Normalise(Tail(parts), Append(acc, Head(parts)))

\* Path(file_path).resolve(): absolute, "." and ".." folded.
Resolve(fp) ==
    Normalise(SplitSlash(fp, <<>>), IF fp[1] = "/" THEN <<>> ELSE Cwd)

RECURSIVE PathStr(_)
\* str(p) of an absolute path.
PathStr(p) == IF p = <<>> THEN <<>> ELSE <<"/">> \o Head(p) \o PathStr(Tail(p))

\* str(p) as the prefix check of line 69 sees it ("/" for the root).
StrOfPath(p) == IF p = <<>> THEN <<"/">> ELSE PathStr(p)

\* UPLOAD_DIR in p.parents
IsInside(dir, p) == Len(p) > Len(dir) /\ SubSeq(p, 1, Len(dir)) = dir

\* _validate_safe_path: "ok" with the resolved path, or the ValidationException.
ValidateSafePath(fp) ==
    IF fp = <<>> THEN [ok |-> FALSE, path |-> <<>>, err |-> "File path is empty"]
    ELSE IF Contains(fp, <<":", "/", "/">>)
    THEN [ok |-> FALSE, path |-> <<>>, err |-> "URLs are not allowed"]
    ELSE LET p == Resolve(fp) IN
         IF ~StartsWith(StrOfPath(p), StrOfPath(UPLOAD_DIR))
         THEN [ok |-> FALSE, path |-> p, err |-> "Access denied"]
         ELSE IF p \notin FileSystem
         THEN [ok |-> FALSE, path |-> p, err |-> "File not found"]
         ELSE [ok |-> TRUE, path |-> p, err |-> ""]

ALLOWED_EXTS == { <<".","c","s","v">>, <<".","x","l","s","x">>,
                  <<".","x","l","s">>, <<".","j","s","o","n">> }

RECURSIVE LastDot(_)
\* The index of the last "." of s, 0 when there is none.
LastDot(s) ==
    IF s = <<>> THEN 0
    ELSE IF s[Len(s)] = "." THEN Len(s) ELSE LastDot(SubSeq(s, 1, Len(s) - 1))

\* Path(name).suffix / os.path.splitext(name)[1] of a file name.
Suffix(name) ==
    LET parts == SplitSlash(name, <<>>)
        base == IF parts = <<>> THEN <<>> ELSE parts[Len(parts)]
        d == LastDot(base)
    IN IF d <= 1 \/ base = <<".", ".">> THEN <<>> ELSE SubSeq(base, d, Len(base))

\* _read_file: the path handed to pandas, or the ValidationException.
ReadFile(fp) ==
    LET v == ValidateSafePath(fp) IN
    IF ~v.ok THEN [opened |-> None, err |-> v.err]
    ELSE IF Lower(Suffix(fp)) \notin ALLOWED_EXTS
    THEN [opened |-> None, err |-> "Unsupported file format"]
    ELSE [opened |-> Resolve(fp), err |-> ""]

RECURSIVE TokenSeqs(_)
TokenSeqs(n) ==
    IF n = 0 THEN {<<>>}
    ELSE LET shorter == TokenSeqs(n - 1)
         IN shorter \cup {Append(s, t) : s \in shorter, t \in PathTokens}

\* The paths of at most n tokens.
PathInputs(n) == {Flatten(ts) : ts \in TokenSeqs(n)}

InitPath == pathIn \in PathInputs(MaxPathTokens) /\ pathOut = [done |-> FALSE]

\* A caller hands pathIn to _read_file.
ReadPath ==
    /\ ~pathOut.done
    /\ pathOut' = [done |-> TRUE] @@ ReadFile(pathIn)
    /\ UNCHANGED <<jobs, disk, up, db, task, envFails, nexec, hist, pathIn, rowIn, rowOut, anIn, anOut, hdrIn, hdrOut>>

-----------------------------------------------------------------------------
(* Header resolution and the per-row transformation of execute_import      *)

\* A column header that is not a string (pandas keeps a numeric header cell
\* as a number): str(k) is its digits, k.lower() raises AttributeError.
IntHeader == <<"~int", "5">>

IsString(h) == h = <<>> \/ h[1] # "~int"

IsAlnumLower(c) == c \in Range(LowerChars) \/ c \in Digits

RECURSIVE SubNonAlnum(_, _)
\* re.sub(r"[^a-z0-9]+", "_", s): every maximal run of other characters
\* becomes one "_" (inRun: the previous character was part of such a run).
SubNonAlnum(s, inRun) ==
    IF s = <<>> THEN <<>>
    ELSE IF IsAlnumLower(s[1]) THEN <<s[1]>> \o SubNonAlnum(Tail(s), FALSE)
    ELSE IF inRun THEN SubNonAlnum(Tail(s), TRUE)
    ELSE <<"_">> \o SubNonAlnum(Tail(s), TRUE)

RECURSIVE SubUnderscores(_, _)
\* re.sub(r"_+", "_", s)
SubUnderscores(s, inRun) ==
    IF s = <<>> THEN <<>>
    ELSE IF s[1] # "_" THEN <<s[1]>> \o SubUnderscores(Tail(s), FALSE)
    ELSE IF inRun THEN SubUnderscores(Tail(s), TRUE)
    ELSE <<"_">> \o SubUnderscores(Tail(s), TRUE)

\* A normaliser that leaves the underscores at the ends.
NormalizeHeaderKeepsEnds(h) ==
    SubUnderscores(SubNonAlnum(Strip(Lower(h)), FALSE), FALSE)

\* _normalize_header of a string header.
NormalizeHeader(h) ==
    StripChar(SubUnderscores(SubNonAlnum(Strip(Lower(h)), FALSE), FALSE), "_")

\* A target of the mapping that is absent (dict.get gives None).
NoTarget == "~None"

\* not target
Falsy(target) == target = NoTarget \/ target = ""

RECURSIVE DictGet(_, _)
\* field_mapping.get(key) of the normalised mapping: the mapping is a sequence
\* of <<header, target>> in the caller's order, a later entry with the same
\* normalised key replaces an earlier one.
DictGet(m, key) ==
    IF m = <<>> THEN NoTarget
    ELSE LET last == m[Len(m)] IN
         IF NormalizeHeader(last[1]) = key THEN last[2]
         ELSE DictGet(SubSeq(m, 1, Len(m) - 1), key)

NameSynonyms == { <<"n","a","m","e">>, <<"i","t","e","m","_","n","a","m","e">>, <<"a","s","s","e","t","_","n","a","m","e">>, <<"m","o","d","e","l">> }

\* The fallback table of lines 470-483: normalised header -> target.
SynonymTarget(k) ==
    IF k \in { <<"s","e","r","i","a","l">>, <<"s","e","r","i","a","l","_","n","u","m","b","e","r">>, <<"s","e","r","v","i","c","e","t","a","g">>, <<"s","e","r","v","i","c","e","_","t","a","g">>, <<"s","_","n">>, <<"s","n">> }
        THEN "serial_number"
    ELSE IF k \in { <<"s","t","a","t","u","s">>, <<"s","t","a","t","e">>, <<"c","u","r","r","e","n","t","_","s","t","a","t","e">>, <<"c","u","r","r","e","n","t","_","s","t","a","t","u","s">> }
        THEN "status"
    ELSE IF k \in { <<"l","o","c","a","t","i","o","n">>, <<"s","i","t","e">>, <<"r","o","o","m">> } THEN "location"
    ELSE IF k \in { <<"c","a","t","e","g","o","r","y">>, <<"t","y","p","e">>, <<"m","o","d","e","l","_","t","y","p","e">>, <<"a","s","s","e","t","_","t","y","p","e">> }
        THEN "asset_type_id"
    ELSE IF k \in { <<"c","o","s","t">>, <<"p","u","r","c","h","a","s","e","_","p","r","i","c","e">>, <<"p","r","i","c","e">>, <<"b","o","u","g","h","t","_","p","r","i","c","e">> }
        THEN "purchase_price"
    ELSE IF k \in { <<"b","o","u","g","h","t","_","d","a","t","e">>, <<"p","u","r","c","h","a","s","e","_","d","a","t","e">>, <<"d","a","t","e","_","b","o","u","g","h","t">> }
        THEN "purchase_date"
    ELSE IF k \in { <<"s","u","p","p","l","i","e","r">>, <<"v","e","n","d","o","r">> } THEN "vendor"
    ELSE IF k \in { <<"p","o","_","n","u","m","b","e","r">>, <<"o","r","d","e","r","_","n","u","m","b","e","r">>, <<"p","o">> } THEN "order_number"
    ELSE IF k \in { <<"w","a","r","r","a","n","t","y","_","e","n","d">>, <<"w","a","r","r","a","n","t","y","_","d","a","t","e">> } THEN "warranty_end"
    ELSE IF k \in { <<"a","s","s","i","g","n","e","d","_","u","s","e","r">>, <<"a","s","s","i","g","n","e","d","_","t","o">>, <<"o","w","n","e","r">>, <<"u","s","e","r">> }
        THEN "assigned_user_id"
    ELSE IF k \in { <<"t","a","g","s">>, <<"t","a","g">> } THEN "tags"
    ELSE NoTarget

\* status_synonyms of lines 538-552: lowercased value -> status key.
StatusSynonym(s) ==
    IF s = <<"d","e","p","l","o","y","e","d">> THEN <<"a","c","t","i","v","e">>
    ELSE IF s \in { <<"i","n"," ","s","t","o","r","a","g","e">>, <<"i","n","-","s","t","o","c","k">> } THEN <<"i","n","_","s","t","o","c","k">>
    ELSE IF s = <<"u","n","d","e","r"," ","r","e","p","a","i","r">> THEN <<"f","i","x">>
    ELSE IF s \in { <<"b","r","o","k","e","n">>, <<"d","a","m","a","g","e","d">> } THEN <<"b","r","o","k","e","n">>
    ELSE IF s = <<"r","e","t","i","r","e","d">> THEN <<"r","e","t","i","r","e","d">>
    ELSE IF s \in { <<"l","o","s","t">>, <<"s","t","o","l","e","n">> } THEN <<"l","o","s","t">>
    ELSE IF s \in { <<"a","w","a","i","t","i","n","g"," ","d","i","s","p","o","s","a","l">>, <<"d","i","s","p","o","s","a","l">> } THEN <<"d","i","s","p","o","s","a","l">>
    ELSE IF s = <<"r","e","s","e","r","v","e","d">> THEN <<"r","e","s","e","r","v","e","d">>
    ELSE IF s = <<"o","r","d","e","r","e","d">> THEN <<"o","r","d","e","r","e","d">>
    ELSE None

\* val_str of lines 459 and 664: str(v) unless v is None or blank.
ValStr(v) == IF v # None /\ Strip(v) # <<>> THEN v ELSE None

\* not name_val
FalsyValue(v) == v = None \/ v = <<>>

DigitChars == <<"0","1","2","3","4","5","6","7","8","9">>

\* str(i) of a row index below ten.
IntStr(i) == <<DigitChars[i + 1]>>

RECURSIVE SplitOn(_, _, _)
\* s.split(c)
SplitOn(s, c, cur) ==
    IF s = <<>> THEN <<cur>>
    ELSE IF s[1] = c THEN <<cur>> \o SplitOn(Tail(s), c, <<>>)
    ELSE SplitOn(Tail(s), c, Append(cur, s[1]))

RECURSIVE NonEmptyStripped(_)
\* [t.strip() for t in parts], then [t for t in ... if t]
NonEmptyStripped(parts) ==
    IF parts = <<>> THEN <<>>
    ELSE (IF Strip(Head(parts)) = <<>> THEN <<>> ELSE <<Strip(Head(parts))>>)
         \o NonEmptyStripped(Tail(parts))

\* The tags list of lines 510-517.
TagsOf(val) ==
    NonEmptyStripped(
        IF "," \in Range(val) THEN SplitOn(val, ",", <<>>)
        ELSE IF ";" \in Range(val) THEN SplitOn(val, ";", <<>>)
        ELSE <<val>>)

RECURSIVE Without(_, _)
\* s.replace(c, "")
Without(s, c) ==
    IF s = <<>> THEN <<>>
    ELSE (IF s[1] = c THEN <<>> ELSE <<s[1]>>) \o Without(Tail(s), c)

\* float(cleaned) succeeds: digits with at most one point (the values used here).
IsFloat(s) ==
    /\ s # <<>>
    /\ \A j \in DOMAIN s : s[j] \in Digits \/ s[j] = "."
    /\ Cardinality({j \in DOMAIN s : s[j] = "."}) <= 1
    /\ \E j \in DOMAIN s : s[j] \in Digits

\* pd.to_datetime(val) succeeds: an ISO date yyyy-mm-dd (the values used here).
IsDate(s) ==
    /\ Len(s) = 10
    /\ \A j \in DOMAIN s : IF j \in {5, 8} THEN s[j] = "-" ELSE s[j] \in Digits

HexChars == Digits \cup {"a","b","c","d","e","f"}

\* uuid.UUID(val) succeeds: 32 hexadecimal digits once the dashes are removed.
IsUUID(s) ==
    LET h == Without(Lower(s), "-")
    IN Len(h) = 32 /\ \A j \in DOMAIN h : h[j] \in HexChars

\* Asset(**asset_data) before any column is applied (lines 450-454).
NewAssetData(name, setId) ==
    [ name |-> name, asset_set_id |-> setId, extra |-> {},
      serial_number |-> None, location |-> None, warranty_end |-> None,
      assigned_user_id |-> None, tags |-> <<>>, purchase_price |-> None,
      purchase_date |-> None, vendor |-> None, order_number |-> None,
      status_id |-> None, asset_type_id |-> None ]

RECURSIVE ExplicitName(_, _)
\* Lines 433-437: the first column whose mapping target is "name".
ExplicitName(rec, fm) ==
    IF rec = <<>> THEN [raised |-> FALSE, found |-> FALSE, val |-> None]
    ELSE IF ~IsString(rec[1][1])
    THEN [raised |-> TRUE, found |-> FALSE, val |-> None]
    ELSE IF DictGet(fm, NormalizeHeader(rec[1][1])) = "name"
    THEN [raised |-> FALSE, found |-> TRUE, val |-> rec[1][2]]
    ELSE ExplicitName(Tail(rec), fm)

RECURSIVE FallbackName(_)
\* Lines 441-445: the first column whose normalised header is a name synonym.
FallbackName(rec) ==
    IF rec = <<>> THEN [raised |-> FALSE, found |-> FALSE, val |-> None]
    ELSE IF ~IsString(rec[1][1])
    THEN [raised |-> TRUE, found |-> FALSE, val |-> None]
    ELSE IF NormalizeHeader(rec[1][1]) \in NameSynonyms
    THEN [raised |-> FALSE, found |-> TRUE, val |-> rec[1][2]]
    ELSE FallbackName(Tail(rec))

\* record.get(key)
RecordGet(rec, key) ==
    IF \E j \in DOMAIN rec : rec[j][1] = key
    THEN rec[CHOOSE j \in DOMAIN rec : rec[j][1] = key][2]
    ELSE None

\* A name resolution that goes from the name columns straight to the
\* placeholder.
NameFromNoId(e, f, byId, i) ==
    IF e.raised THEN [raised |-> TRUE, name |-> None]
    ELSE IF e.found /\ ~FalsyValue(e.val) THEN [raised |-> FALSE, name |-> e.val]
    ELSE IF f.raised THEN [raised |-> TRUE, name |-> None]
    ELSE IF f.found /\ ~FalsyValue(f.val) THEN [raised |-> FALSE, name |-> f.val]
    ELSE [raised |-> FALSE, name |-> <<"I","m","p","o","r","t","e","d"," ","A","s","s","e","t"," ">> \o IntStr(i)]

\* Lines 439-448 once the loops of lines 433-437 (e) and 441-445 (f) and
\* record.get("AssetID") (byId) are known; the second loop runs only when the
\* first left name_val falsy.
NameFrom(e, f, byId, i) ==
    IF e.raised THEN [raised |-> TRUE, name |-> None]
    ELSE IF e.found /\ ~FalsyValue(e.val) THEN [raised |-> FALSE, name |-> e.val]
    ELSE IF f.raised THEN [raised |-> TRUE, name |-> None]
    ELSE IF f.found /\ ~FalsyValue(f.val) THEN [raised |-> FALSE, name |-> f.val]
    ELSE IF ~FalsyValue(byId) THEN [raised |-> FALSE, name |-> byId]
    ELSE [raised |-> FALSE, name |-> <<"I","m","p","o","r","t","e","d"," ","A","s","s","e","t"," ">> \o IntStr(i)]

\* Lines 430-448: the asset's name, or the exception raised on the way.
ResolveName(rec, i, fm) ==
    NameFrom(ExplicitName(rec, fm), FallbackName(rec), RecordGet(rec, <<"A","s","s","e","t","I","D">>), i)

\* status_map / type_map: pairs <<lowercased name, id>>; a row's id is its name.
MapOfNames(names) == {<<Lower(n), n>> : n \in names}

HasKey(m, key) == \E p \in m : p[1] = key

Lookup(m, key) == (CHOOSE p \in m : p[1] = key)[2]

\* Lines 554-559 for the lowercased value s_val and its synonym syn.
StatusId(s_val, syn, statusMap) ==
    IF HasKey(statusMap, s_val) THEN Lookup(statusMap, s_val)
    ELSE IF syn # None /\ HasKey(statusMap, syn) THEN Lookup(statusMap, syn)
    ELSE IF HasKey(statusMap, <<"a","c","t","i","v","e">>) THEN Lookup(statusMap, <<"a","c","t","i","v","e">>)
    ELSE None

\* Lines 535-559: the status id a value resolves to, None when it resolves to none.
ResolveStatus(val, statusMap) ==
    StatusId(Lower(val), StatusSynonym(Lower(val)), statusMap)

\* The target a column is dispatched on (lines 463-483): the explicit mapping
\* entry, else the synonym table.
TargetOf(explicit, k_norm) ==
    IF Falsy(explicit) THEN SynonymTarget(k_norm) ELSE explicit

\* Lines 485-577: the column is written to its target. st: the asset_data
\* built so far, the type_map and the asset types flushed by this row.
\* ctx.dbOk: whether the session can reach the database; ctx.users: the rows
\* of the user table the session sees.
AssetField(st, k, v, val, target, ctx) ==
    IF target = "name" THEN st
    ELSE IF target = "serial_number" THEN [st EXCEPT !.data.serial_number = val]
    ELSE IF target = "location" THEN [st EXCEPT !.data.location = val]
    ELSE IF target = "warranty_end"
    THEN (IF IsDate(val) THEN [st EXCEPT !.data.warranty_end = val] ELSE st)
    ELSE IF target = "assigned_user_id"
    THEN (IF IsUUID(val) THEN [st EXCEPT !.data.assigned_user_id = val]
          ELSE IF ~ctx.dbOk
          THEN [st EXCEPT !.raised = TRUE, !.dbFailed = TRUE, !.msg = "DBAPIError"]
          ELSE IF \E u \in ctx.users : u.email = val
          THEN [st EXCEPT !.data.assigned_user_id =
                              (CHOOSE u \in ctx.users : u.email = val).id]
          ELSE st)
    ELSE IF target = "tags" THEN [st EXCEPT !.data.tags = TagsOf(val)]
    ELSE IF target = "purchase_price"
    THEN (IF IsFloat(Without(Without(val, "$"), ","))
          THEN [st EXCEPT !.data.purchase_price = Without(Without(val, "$"), ",")]
          ELSE st)
    ELSE IF target = "purchase_date"
    THEN (IF IsDate(val) THEN [st EXCEPT !.data.purchase_date = val] ELSE st)
    ELSE IF target = "vendor" THEN [st EXCEPT !.data.vendor = val]
    ELSE IF target = "order_number" THEN [st EXCEPT !.data.order_number = val]
    ELSE IF target = "status"
    THEN [st EXCEPT !.data.status_id =
                        IF ResolveStatus(val, ctx.statusMap) # None
                        THEN ResolveStatus(val, ctx.statusMap) ELSE @]
    ELSE IF target = "asset_type_id"
    THEN (IF HasKey(st.typeMap, Lower(val))
          THEN [st EXCEPT !.data.asset_type_id = Lookup(st.typeMap, Lower(val))]
          ELSE IF ~ctx.dbOk
          THEN [st EXCEPT !.raised = TRUE, !.dbFailed = TRUE, !.msg = "DBAPIError"]
          ELSE [st EXCEPT !.typeMap = @ \cup {<<Lower(val), val>>},
                          !.newTypes = Append(@, val),
                          !.data.asset_type_id = val])
    ELSE [st EXCEPT !.data.extra = {p \in @ : p[1] # k} \cup {<<k, v>>}]

\* Lines 459-483 for a column whose normalised header is k_norm, whose
\* val_str is val and whose mapping entry is explicit.
AssetMapped(st, k, v, val, explicit, k_norm, ctx) ==
    IF val = None THEN st
    ELSE IF explicit = "" THEN st
    ELSE AssetField(st, k, v, val, TargetOf(explicit, k_norm), ctx)

\* Lines 456-577 for one column; a header that is no string raises in
\* _normalize_header.
AssetCol(st, k, v, fm, ctx) ==
    IF st.raised THEN st
    ELSE IF ~IsString(k) THEN [st EXCEPT !.raised = TRUE, !.msg = "AttributeError"]
    ELSE AssetMapped(st, k, v, ValStr(v), DictGet(fm, NormalizeHeader(k)),
                     NormalizeHeader(k), ctx)

RECURSIVE AssetCols(_, _, _, _)
\* The loop of line 456 over the record's columns, in order.
AssetCols(rec, st, fm, ctx) ==
    IF rec = <<>> THEN st
    ELSE AssetCols(Tail(rec), AssetCol(st, rec[1][1], rec[1][2], fm, ctx), fm, ctx)

\* Lines 450-577 for a record whose name resolved to n.
AssetNamed(n, rec, fm, setId, typeMap, ctx) ==
    IF n.raised
    THEN [ data |-> NewAssetData(None, setId), typeMap |-> typeMap,
           newTypes |-> <<>>, raised |-> TRUE, dbFailed |-> FALSE,
           msg |-> "AttributeError" ]
    ELSE AssetCols(rec, [ data |-> NewAssetData(n.name, setId), typeMap |-> typeMap,
                          newTypes |-> <<>>, raised |-> FALSE, dbFailed |-> FALSE,
                          msg |-> "" ], fm, ctx)

\* The body of the row loop of execute_import up to Asset(**asset_data)
\* (lines 427-582) for record number i.
AssetRow(rec, i, fm, setId, typeMap, ctx) ==
    AssetNamed(ResolveName(rec, i, fm), rec, fm, setId, typeMap, ctx)

-----------------------------------------------------------------------------
(* The per-row transformation of execute_user_import                       *)

\* The fallback table of lines 667-670.
UserSynonymTarget(k) ==
    IF k \in { <<"e","m","a","i","l">>, <<"e","m","a","i","l","_","a","d","d","r","e","s","s">>, <<"m","a","i","l">> } THEN "email"
    ELSE IF k \in { <<"n","a","m","e">>, <<"f","u","l","l","_","n","a","m","e">>, <<"f","u","l","l","n","a","m","e">> } THEN "full_name"
    ELSE IF k \in { <<"r","o","l","e">>, <<"r","o","l","e","_","n","a","m","e">> } THEN "role"
    ELSE NoTarget

\* Lines 672-680: the column is written to its target.
UserField(st, k, v, val, target) ==
    IF target = "email" THEN (IF val # None THEN [st EXCEPT !.email = val] ELSE st)
    ELSE IF target = "full_name"
    THEN (IF val # None THEN [st EXCEPT !.full_name = val] ELSE st)
    ELSE IF target = "role"
    THEN (IF val # None THEN [st EXCEPT !.role_name = val] ELSE st)
    ELSE IF v # None
    THEN [st EXCEPT !.extra = {p \in @ : p[1] # k} \cup {<<k, v>>}]
    ELSE st

\* Lines 666-670: the target of a column whose mapping entry is explicit.
UserTargetOf(explicit, k_norm) ==
    IF Falsy(explicit) THEN UserSynonymTarget(k_norm) ELSE explicit

\* Lines 662-680 for one column.
UserCol(st, k, v, fm) ==
    IF st.raised THEN st
    ELSE IF ~IsString(k) THEN [st EXCEPT !.raised = TRUE, !.msg = "AttributeError"]
    ELSE UserField(st, k, v, ValStr(v),
                   UserTargetOf(DictGet(fm, NormalizeHeader(k)), NormalizeHeader(k)))

RECURSIVE UserCols(_, _, _)
UserCols(rec, st, fm) ==
    IF rec = <<>> THEN st
    ELSE UserCols(Tail(rec), UserCol(st, rec[1][1], rec[1][2], fm), fm)

\* Lines 682-683: a record without an email raises.
RequireEmail(st) ==
    IF ~st.raised /\ st.email = None
    THEN [st EXCEPT !.raised = TRUE, !.msg = "Email is required"]
    ELSE st

\* Lines 657-683: the fields read from one record.
UserFields(rec, fm) ==
    RequireEmail(UserCols(rec, [ email |-> None, full_name |-> None,
                                 role_name |-> <<"u","s","e","r">>, extra |-> {},
                                 raised |-> FALSE, msg |-> "" ], fm))

\* A fresh UUID for the row created by execution e for record i.
FreshId(e, i) == [j \in 1..32 |-> IF j = 1 THEN DigitChars[e + 1]
                                  ELSE IF j = 2 THEN DigitChars[i + 1] ELSE "0"]

\* The role table.
Roles == { <<"a","d","m","i","n">>, <<"i","t">>, <<"u","s","e","r">> }

NoUser ==
    [ id |-> None, email |-> None, full_name |-> None, asset_set_id |-> None,
      extra |-> {}, roles |-> {}, hashed_password |-> None, is_active |-> TRUE,
      by |-> {} ]

\* An update that gives an existing user the role of the record.
UpdatedUserTakesRole(old, f, e, i, setId) ==
    [old EXCEPT !.asset_set_id = setId, !.by = @ \cup {<<e, i>>},
                !.extra = IF @ # {} THEN @ ELSE f.extra,
                !.full_name = IF f.full_name # None THEN f.full_name ELSE @,
                !.roles = IF f.role_name \in Roles THEN {f.role_name} ELSE @]

\* An update that leaves the group of an existing user as it was.
UpdatedUserKeepsSet(old, f, e, i, setId) ==
    [old EXCEPT !.by = @ \cup {<<e, i>>},
                !.extra = IF @ # {} THEN @ ELSE f.extra,
                !.full_name = IF f.full_name # None THEN f.full_name ELSE @]

\* Lines 696-704: the row of the existing user old after the update. A
\* non-empty extra is updated in place (line 700), which the JSONB column of
\* models/user.py does not track: the stored value stays.
UpdatedUser(old, f, e, i, setId) ==
    [old EXCEPT !.asset_set_id = setId, !.by = @ \cup {<<e, i>>},
                !.extra = IF @ # {} THEN @ ELSE f.extra,
                !.full_name = IF f.full_name # None THEN f.full_name ELSE @]

\* Lines 685-719 once the fields f are read: the write the row makes to the
\* user table. op "update" replaces the row with user.id, op "create" adds one.
UserWrite(f, e, i, setId, ctx) ==
    IF f.raised
    THEN [raised |-> TRUE, dbFailed |-> FALSE, msg |-> f.msg, op |-> "none",
          user |-> NoUser]
    ELSE IF ~ctx.dbOk
    THEN [raised |-> TRUE, dbFailed |-> TRUE, msg |-> "DBAPIError", op |-> "none",
          user |-> NoUser]
    ELSE IF \E u \in ctx.users : u.email = f.email
    THEN [ raised |-> FALSE, dbFailed |-> FALSE, msg |-> "", op |-> "update",
           user |-> UpdatedUser(CHOOSE u \in ctx.users : u.email = f.email,
                                f, e, i, setId) ]
    ELSE [ raised |-> FALSE, dbFailed |-> FALSE, msg |-> "", op |-> "create",
           user |-> [ id |-> FreshId(e, i), email |-> f.email,
                      full_name |-> f.full_name, asset_set_id |-> setId,
                      extra |-> f.extra,
                      roles |-> IF f.role_name \in Roles THEN {f.role_name} ELSE {},
                      hashed_password |-> None, is_active |-> TRUE,
                      by |-> {<<e, i>>} ] ]

\* Lines 657-719 for one record.
UserRow(rec, e, i, fm, setId, ctx) == UserWrite(UserFields(rec, fm), e, i, setId, ctx)

-----------------------------------------------------------------------------
(* The database session of one execution                                   *)

\* Rows added or changed by a session and not yet committed. assets, sets,
\* defs, types: rows added; users: rows added; upd: user rows changed.
EmptyTx == [sets |-> {}, defs |-> {}, types |-> {}, assets |-> {}, users |-> {},
            upd |-> {}]

\* The user table as a session sees it: the committed rows, its own changes
\* to them, and the rows it added.
UsersSeen(d, tx) ==
    {u \in d.users : ~\E w \in tx.upd : w.id = u.id} \cup tx.upd \cup tx.users

\* What a commit of tx leaves in the tables.
Commit(d, tx) ==
    [ sets |-> d.sets \cup tx.sets, defs |-> d.defs \cup tx.defs,
      types |-> d.types \cup tx.types, assets |-> d.assets \cup tx.assets,
      users |-> UsersSeen(d, tx), statuses |-> d.statuses ]

\* The unique constraints of the tables c: Asset.serial_number
\* (models/asset.py), AssetType.name (models/asset_type.py) and User.email
\* (models/user.py).
Unique(c) ==
    /\ \A a, b \in c.assets :
           a.serial_number # None /\ a.serial_number = b.serial_number => a = b
    /\ \A a, b \in c.types : a.name = b.name => a = b
    /\ \A a, b \in c.users : a.email = b.email => a = b

\* A reference column holds ref: NULL, or the id of a row of rows. A value
\* that is no UUID is refused by the UUID column.
RefersTo(ref, rows) ==
    ref = None \/ (IsUUID(ref) /\ \E r \in rows : r.id = Lower(Without(ref, "-")))

\* The foreign keys of the tables c: Asset.asset_set_id and
\* Asset.assigned_user_id (models/asset.py), User.asset_set_id
\* (models/user.py).
ForeignKeys(c) ==
    /\ \A a \in c.assets : RefersTo(a.asset_set_id, c.sets)
    /\ \A a \in c.assets : RefersTo(a.assigned_user_id, c.users)
    /\ \A u \in c.users : RefersTo(u.asset_set_id, c.sets)

\* The tables c satisfy the constraints of the schema.
Constrained(c) == Unique(c) /\ ForeignKeys(c)

\* A flush of tx succeeds.
Consistent(d, tx) == Constrained(Commit(d, tx))

-----------------------------------------------------------------------------
(* Strategy handling of execute_import and execute_user_import             *)

\* key = field_name.lower().strip().replace(" ", "_") (lines 128, 352, 383)
FieldKey(h) == [j \in DOMAIN Strip(Lower(h)) |->
                   IF Strip(Lower(h))[j] = " " THEN "_" ELSE Strip(Lower(h))[j]]

\* The id of the asset set execution e creates.
FreshSetId(e) == [j \in 1..32 |-> IF j = 1 THEN DigitChars[e + 1] ELSE "f"]

\* f"Imported Set {uuid.uuid4().hex[:8]}"
DefaultSetName(prefix, e) == prefix \o SubSeq(FreshSetId(e), 1, 8)

RECURSIVE NewSetFields(_, _, _, _, _)
\* Lines 350-360: one definition per new field, scoped to the new set.
\* acc: [raised, defs]; a field name that is no string raises at .lower().
NewSetFields(fields, setId, e, n, acc) ==
    IF fields = <<>> \/ acc.raised THEN acc
    ELSE IF ~IsString(Head(fields))
    THEN [acc EXCEPT !.raised = TRUE]
    ELSE NewSetFields(Tail(fields), setId, e, n + 1,
             [acc EXCEPT !.defs = @ \cup
                 {[ key |-> FieldKey(Head(fields)), label |-> Head(fields),
                    asset_set_id |-> setId, by |-> e, n |-> n ]}])

RECURSIVE MergeFields(_, _, _, _, _)
\* Lines 381-393: a global definition per new field whose key is not yet
\* taken; scalar_one_or_none raises when several definitions have the key.
MergeFields(fields, seen, e, n, acc) ==
    IF fields = <<>> \/ acc.raised THEN acc
    ELSE IF ~IsString(Head(fields))
    THEN [acc EXCEPT !.raised = TRUE]
    ELSE LET key == FieldKey(Head(fields))
             have == {f \in seen \cup acc.defs : f.key = key}
         IN IF Cardinality(have) > 1 THEN [acc EXCEPT !.raised = TRUE]
            ELSE MergeFields(Tail(fields), seen, e, n + 1,
                     IF have # {} THEN acc
                     ELSE [acc EXCEPT !.defs = @ \cup
                              {[ key |-> key, label |-> Head(fields),
                                 asset_set_id |-> None, by |-> e, n |-> n ]}])

\* Lines 339-394: what the strategy adds to the session and the set the rows
\* attach to. kind "validation": ValidationException raised before any write;
\* kind "error": another exception, the rows added before it stay in the
\* session.
AssetStrategy(strategy, opts, e, userId, d) ==
    IF strategy = "NEW_SET"
    THEN LET name == IF opts.new_set_name = None
                     THEN DefaultSetName(<<"I","m","p","o","r","t","e","d"," ","S","e","t"," ">>, e)
                     ELSE opts.new_set_name
             set == [ id |-> FreshSetId(e), name |-> name, description |-> None,
                      created_by_id |-> userId, by |-> e ]
             fs == NewSetFields(opts.new_fields, set.id, e, 0,
                                [raised |-> FALSE, defs |-> {}])
         IN [ kind |-> IF fs.raised THEN "error" ELSE "ok",
              tx |-> [EmptyTx EXCEPT !.sets = {set}, !.defs = fs.defs],
              setId |-> set.id ]
    ELSE IF strategy = "EXISTING_SET"
    THEN IF opts.asset_set_id = None \/ opts.asset_set_id = <<>>
              \/ ~IsUUID(opts.asset_set_id)
              \/ ~\E s \in d.sets : s.id = Lower(Without(opts.asset_set_id, "-"))
         THEN [kind |-> "validation", tx |-> EmptyTx, setId |-> None]
         ELSE [ kind |-> "ok", tx |-> EmptyTx,
                setId |-> Lower(Without(opts.asset_set_id, "-")) ]
    ELSE IF strategy = "MERGE" /\ opts.create_missing_fields
    THEN LET fs == MergeFields(opts.new_fields, d.defs, e, 0,
                               [raised |-> FALSE, defs |-> {}])
         IN [ kind |-> IF fs.raised THEN "error" ELSE "ok",
              tx |-> [EmptyTx EXCEPT !.defs = fs.defs], setId |-> None ]
    ELSE [kind |-> "ok", tx |-> EmptyTx, setId |-> None]

\* Lines 623-640 of execute_user_import.
UserStrategy(strategy, opts, e, userId) ==
    IF strategy = "NEW_SET"
    THEN LET name == IF opts.new_set_name = None
                     THEN DefaultSetName(<<"I","m","p","o","r","t","e","d"," ","U","s","e","r"," ","G","r","o","u","p"," ">>, e)
                     ELSE opts.new_set_name
             set == [ id |-> FreshSetId(e), name |-> name,
                      description |-> <<"U","s","e","r"," ","G","r","o","u","p">>, created_by_id |-> userId,
                      by |-> e ]
         IN [kind |-> "ok", tx |-> [EmptyTx EXCEPT !.sets = {set}], setId |-> set.id]
    ELSE IF strategy = "EXISTING_SET"
    THEN IF opts.asset_set_id = None \/ opts.asset_set_id = <<>>
         THEN [kind |-> "validation", tx |-> EmptyTx, setId |-> None]
         ELSE [kind |-> "ok", tx |-> EmptyTx, setId |-> opts.asset_set_id]
    ELSE [kind |-> "ok", tx |-> EmptyTx, setId |-> None]

-----------------------------------------------------------------------------
(* Upload intake: create_import_job                                        *)

\* Sizes are counted in units of 1/MB megabyte.
MB == 2

\* chunk_size = 1024 * 1024
ChunkSize == MB

\* DEFAULT_MAX_UPLOAD_BYTES = 50 * 1024 * 1024
DEFAULT_MAX_UPLOAD_BYTES == 50 * MB

\* max_bytes of an admin: 1024 * 1024 * 1024 * 10
AdminMaxBytes == 10 * 1024 * MB

RECURSIVE IntOf(_, _)
\* int(value) of a string of digits (acc: the digits read so far).
IntOf(s, acc) ==
    IF s = <<>> THEN acc
    ELSE IntOf(Tail(s), 10 * acc +
               ((CHOOSE j \in DOMAIN DigitChars : DigitChars[j] = s[1]) - 1))

\* The digits of an int literal: the text without blanks around it and
\* without its sign.
IntDigits(s) ==
    IF Strip(s) # <<>> /\ Strip(s)[1] \in {"-", "+"} THEN Tail(Strip(s)) ELSE Strip(s)

\* int(value) succeeds.
IsInt(s) == IntDigits(s) # <<>> /\ \A j \in DOMAIN IntDigits(s) : IntDigits(s)[j] \in Digits

\* int(value)
IntValue(s) ==
    IF Strip(s)[1] = "-" THEN 0 - IntOf(IntDigits(s), 0) ELSE IntOf(IntDigits(s), 0)

\* Lines 239-254: the limit that applies. setting: the value of the
\* import_max_upload_mb row (a JSON string), None when there is no row.
MaxBytes(admin, setting) ==
    IF admin THEN AdminMaxBytes
    ELSE IF setting # None /\ setting # <<>> /\ IsInt(setting)
    THEN IntValue(setting) * MB
    ELSE DEFAULT_MAX_UPLOAD_BYTES

\* _validate_ext: the extension is allowed.
ValidExt(filename) ==
    Lower(Suffix(IF filename = None THEN <<>> ELSE filename)) \in ALLOWED_EXTS

JobIds == {"j1"}

NoResult == [imported |-> 0, errors |-> <<>>, set_id |-> None]

NoJob == [status |-> "none", result |-> NoResult, error |-> "", file |-> "none"]

\* The status create_import_job gives the new job (line 289).
CreatedStatus == "completed"

\* The Job row of lines 287-296.
NewJob(content) ==
    [status |-> CreatedStatus, result |-> NoResult, error |-> "", file |-> content]

UpIdle == [ state |-> "idle", filename |-> None, size |-> 0, left |-> 0,
            max |-> 0, job |-> "j1", content |-> "none", total |-> 0 ]

\* create_import_job up to the open() of line 266: the extension check, the
\* limit, the destination file.
UploadStart(filename, admin, setting, total, content) ==
    /\ up.state # "reading"
    /\ \E j \in JobIds : jobs[j] = NoJob
    /\ LET j == CHOOSE j \in JobIds : jobs[j] = NoJob IN
       IF ~ValidExt(filename)
       THEN /\ up' = [UpIdle EXCEPT !.state = "rejected", !.filename = filename,
                                    !.total = total, !.job = j]
            /\ disk' = disk
       ELSE /\ up' = [ state |-> "reading", filename |-> filename, size |-> 0,
                       left |-> total, max |-> MaxBytes(admin, setting),
                       job |-> j, content |-> content, total |-> total ]
            /\ disk' = disk \cup {j}
    /\ UNCHANGED <<jobs, db, task, envFails, nexec, hist, pathIn, pathOut, rowIn, rowOut, anIn, anOut, hdrIn, hdrOut>>

\* One turn of the loop of lines 267-274, and what follows it: the cleanup of
\* lines 276-280 or the Job of lines 287-299.
UploadChunk ==
    /\ up.state = "reading"
    /\ LET chunk == IF up.left < ChunkSize THEN up.left ELSE ChunkSize IN
       IF chunk = 0
       THEN /\ jobs' = [jobs EXCEPT ![up.job] = NewJob(up.content)]
            /\ up' = [up EXCEPT !.state = "accepted"]
            /\ disk' = disk
       ELSE IF up.size + chunk > up.max
       THEN /\ disk' = disk \ {up.job}
            /\ up' = [up EXCEPT !.state = "rejected", !.size = @ + chunk]
            /\ jobs' = jobs
       ELSE /\ up' = [up EXCEPT !.size = @ + chunk, !.left = @ - chunk]
            /\ UNCHANGED <<jobs, disk>>
    /\ UNCHANGED <<db, task, envFails, nexec, hist, pathIn, pathOut, rowIn, rowOut, anIn, anOut, hdrIn, hdrOut>>

-----------------------------------------------------------------------------
(* The files, the catalog and the options the executions run on            *)

UserId1 == [j \in 1..32 |-> "a"]

\* The admin user the bootstrap creates (address and name abbreviated);
\* uploads and imports are made by it.
SeedUser ==
    [ id |-> UserId1, email |-> <<"a","@","x">>, full_name |-> <<"A","n","n">>,
      asset_set_id |-> None, extra |-> {}, roles |-> {<<"a","d","m","i","n">>},
      hashed_password |-> <<"h">>, is_active |-> TRUE, by |-> {} ]

GeneralSetId == [j \in 1..32 |-> "e"]

\* scripts/bootstrap.py: DEFAULT_STATUSES and DEFAULT_SETS.
SeedDb ==
    [ sets |-> {[ id |-> GeneralSetId, name |-> <<"G","e","n","e","r","a","l">>,
                  description |-> <<"G","e","n","e","r","a","l"," ","a","s","s","e","t","s">>, created_by_id |-> None,
                  by |-> 0 ]},
      defs |-> {},
      types |-> {[name |-> <<"L","a","p","t","o","p">>, by |-> <<0, 0>>]},
      assets |-> {},
      users |-> {SeedUser},
      statuses |-> { <<"a","c","t","i","v","e">>, <<"i","n","_","s","t","o","c","k">>, <<"f","i","x">>, <<"r","e","t","i","r","e","d">>, <<"l","o","s","t">> } ]

\* The uploaded tables: "records" of line 337, one sequence of
\* <<header, value>> per row; ok = FALSE: pandas cannot parse the file.
Table(f) ==
    IF f = "dupserial" THEN
        [ ok |-> TRUE, rows |-> <<
            << <<<<"N","a","m","e">>, <<"p","c","1">>>>, <<<<"S","N">>, <<"s","1">>>> >>,
            << <<<<"N","a","m","e">>, <<"p","c","2">>>>, <<<<"S","N">>, <<"s","1">>>> >> >> ]
    ELSE IF f = "inthdr" THEN
        [ ok |-> TRUE, rows |-> <<
            << <<<<"N","a","m","e">>, <<"t","1">>>>, <<<<"T","y","p","e">>, <<"T","a","b","l","e","t">>>>, <<IntHeader, <<"x">>>> >>,
            << <<<<"N","a","m","e">>, <<"t","2">>>>, <<<<"T","y","p","e">>, <<"t","a","b","l","e","t">>>>, <<IntHeader, <<"y">>>> >> >> ]
    ELSE IF f = "clean" THEN
        [ ok |-> TRUE, rows |-> <<
            << <<<<"N","a","m","e">>, <<"p","c","3">>>>, <<<<"T","y","p","e">>, <<"L","a","p","t","o","p">>>>, <<<<"O","w","n","e","r">>, <<"a","@","x">>>> >>,
            << <<<<"N","a","m","e">>, None>>, <<<<"T","y","p","e">>, <<"P","h","o","n","e">>>>, <<<<"O","w","n","e","r">>, None>> >> >> ]
    ELSE IF f = "people" THEN
        [ ok |-> TRUE, rows |-> <<
            << <<<<"E","m","a","i","l">>, <<"b","@","x">>>>, <<<<"N","a","m","e">>, <<"B","o","b">>>>, <<<<"D","e","p","t">>, <<"I","T">>>>, <<<<"R","o","l","e">>, <<"i","t">>>> >>,
            << <<<<"E","m","a","i","l">>, None>>, <<<<"N","a","m","e">>, <<"C","y">>>>, <<<<"D","e","p","t">>, None>>, <<<<"R","o","l","e">>, None>> >>,
            << <<<<"E","m","a","i","l">>, <<"a","@","x">>>>, <<<<"N","a","m","e">>, <<"A","n","n"," ","B">>>>, <<<<"D","e","p","t">>, None>>, <<<<"R","o","l","e">>, <<"i","t">>>> >>,
            << <<<<"E","m","a","i","l">>, <<"b","@","x">>>>, <<<<"N","a","m","e">>, None>>, <<<<"D","e","p","t">>, <<"H","R">>>>, <<<<"R","o","l","e">>, None>> >> >> ]
    ELSE IF f = "types" THEN
        [ ok |-> TRUE, rows |-> <<
            << <<<<"N","a","m","e">>, <<"t","1">>>>, <<<<"T","y","p","e">>, <<"T","a","b","l","e","t">>>> >>,
            << <<<<"N","a","m","e">>, <<"t","2">>>>, <<<<"T","y","p","e">>, <<"t","a","b","l","e","t">>>> >>,
            << <<<<"N","a","m","e">>, <<"t","3">>>>, <<<<"T","y","p","e">>, <<"D","e","s","k">>>> >> >> ]
    ELSE IF f = "dupowner" THEN
        [ ok |-> TRUE, rows |-> <<
            << <<<<"N","a","m","e">>, <<"p","c","1">>>>, <<<<"S","N">>, <<"s","1">>>>, <<<<"O","w","n","e","r">>, None>> >>,
            << <<<<"N","a","m","e">>, <<"p","c","2">>>>, <<<<"S","N">>, <<"s","1">>>>, <<<<"O","w","n","e","r">>, <<"a","@","x">>>> >> >> ]
    ELSE IF f = "plain" THEN
        [ ok |-> TRUE, rows |-> <<
            << <<<<"N","a","m","e">>, <<"p","c","5">>>>, <<<<"S","i","t","e">>, <<"h","q">>>> >>,
            << <<<<"N","a","m","e">>, <<"p","c","6">>>>, <<<<"S","i","t","e">>, <<"l","a","b">>>> >> >> ]
    ELSE IF f = "oneserial" THEN
        [ ok |-> TRUE, rows |-> <<
            << <<<<"N","a","m","e">>, <<"p","c","7">>>>, <<<<"S","N">>, <<"s","1">>>> >> >> ]
    ELSE [ok |-> FALSE, rows |-> <<>>]

Files == {"dupserial", "inthdr", "clean", "people", "types", "garbage"}

BaseOpts ==
    [ new_set_name |-> None, asset_set_id |-> None, mapping |-> <<>>,
      mapping_null |-> FALSE, new_fields |-> <<>>,
      create_missing_fields |-> FALSE ]

\* The execute requests: type, strategy and options of ExecuteImportRequest.
\* mapping_null: the options carry "mapping": null.
Scenarios ==
    { [kind |-> "asset", strategy |-> "MERGE", opts |-> BaseOpts],
      [kind |-> "asset", strategy |-> "NEW_SET",
       opts |-> [BaseOpts EXCEPT !.new_set_name = <<"L","a","b">>,
                                 !.mapping = << <<<<"N","a","m","e">>, "name">> >>,
                                 !.new_fields = << <<"N","o","t","e">> >>]],
      [kind |-> "asset", strategy |-> "NEW_SET",
       opts |-> [BaseOpts EXCEPT !.mapping_null = TRUE]],
      [kind |-> "asset", strategy |-> "EXISTING_SET",
       opts |-> [BaseOpts EXCEPT !.asset_set_id = [j \in 1..32 |-> "0"]]],
      [kind |-> "user", strategy |-> "GLOBAL", opts |-> BaseOpts],
      [kind |-> "user", strategy |-> "EXISTING_SET",
       opts |-> [BaseOpts EXCEPT !.asset_set_id = [j \in 1..32 |-> "0"]]],
      [kind |-> "user", strategy |-> "NEW_SET",
       opts |-> [BaseOpts EXCEPT !.new_set_name = <<"S","t","a","f","f">>,
                                 !.new_fields = << <<"D","e","p","t">> >>]] }

-----------------------------------------------------------------------------
(* The background wrapper and the executions it drives                     *)

Tasks == {1}

MaxExec == 2

MaxEnvFail == 1

IdleTask ==
    [ pc |-> "idle", job |-> "j1",
      sc |-> [kind |-> "asset", strategy |-> "MERGE", opts |-> BaseOpts],
      e |-> 0, tx |-> EmptyTx, broken |-> FALSE, records |-> <<>>,
      setId |-> None, typeMap |-> {}, statusMap |-> {}, i |-> 0,
      imported |-> 0, errors |-> <<>>, ok |-> {}, exc |-> "",
      result |-> NoResult, existed |-> FALSE ]

\* An endpoint that refuses a job that is being executed.
TriggerUnlessRunning(t, j, sc) ==
    /\ jobs[j].status # "running"
    /\ task[t].pc \in {"idle", "done"}
    /\ nexec < MaxExec
    /\ nexec' = nexec + 1
    /\ task' = [task EXCEPT ![t] =
                   [IdleTask EXCEPT !.pc = "start", !.job = j, !.sc = sc,
                                    !.e = nexec + 1,
                                    !.existed = jobs[j] # NoJob]]
    /\ UNCHANGED <<jobs, disk, up, db, envFails, hist, pathIn, pathOut, rowIn, rowOut, anIn, anOut, hdrIn, hdrOut>>

\* routers/imports.py execute_import: the request is accepted for any job id
\* and the wrapper is scheduled with a session of its own.
Trigger(t, j, sc) ==
    /\ task[t].pc \in {"idle", "done"}
    /\ nexec < MaxExec
    /\ nexec' = nexec + 1
    /\ task' = [task EXCEPT ![t] =
                   [IdleTask EXCEPT !.pc = "start", !.job = j, !.sc = sc,
                                    !.e = nexec + 1,
                                    !.existed = jobs[j] # NoJob]]
    /\ UNCHANGED <<jobs, disk, up, db, envFails, hist, pathIn, pathOut, rowIn, rowOut, anIn, anOut, hdrIn, hdrOut>>

\* A database failure may be injected only while the budget lasts.
MayFail(fail) == fail => envFails < MaxEnvFail

Failed(fail) == envFails' = IF fail THEN envFails + 1 ELSE envFails

\* The wrapper's exception handler is entered: exc is str(e).
ToHandler(tk, exc, broken, tx) ==
    [tk EXCEPT !.pc = "handler", !.exc = exc, !.broken = broken, !.tx = tx]

\* Lines 754-759: the job is marked running and committed.
WrapperStart(t, fail) ==
    /\ task[t].pc = "start"
    /\ MayFail(fail)
    /\ Failed(fail)
    /\ IF fail
       THEN /\ task' = [task EXCEPT ![t] = ToHandler(@, "DBAPIError", TRUE, EmptyTx)]
            /\ jobs' = jobs
       ELSE /\ jobs' = IF jobs[task[t].job] # NoJob
                       THEN [jobs EXCEPT ![task[t].job].status = "running"]
                       ELSE jobs
            /\ task' = [task EXCEPT ![t].pc = "exec"]
    /\ UNCHANGED <<disk, up, db, nexec, hist, pathIn, pathOut, rowIn, rowOut, anIn, anOut, hdrIn, hdrOut>>

\* Lines 339-394 and 623-640: the strategy of the request is applied.
StrategyOf(tk, d) ==
    IF tk.sc.kind = "user"
    THEN UserStrategy(tk.sc.strategy, tk.sc.opts, tk.e, UserId1)
    ELSE AssetStrategy(tk.sc.strategy, tk.sc.opts, tk.e, UserId1, d)

\* The task after the prologue of an execution on job, whose file parses to
\* table and whose strategy gave strat.
Begun(tk, job, table, strat, d) ==
    IF job = NoJob THEN ToHandler(tk, "Job not found", FALSE, EmptyTx)
    ELSE IF ~table.ok THEN ToHandler(tk, "Error reading file", FALSE, EmptyTx)
    ELSE IF strat.kind = "validation" THEN ToHandler(tk, "Validation", FALSE, EmptyTx)
    ELSE IF strat.kind = "error" \/ tk.sc.opts.mapping_null
    THEN ToHandler(tk, "Import process failed", FALSE, strat.tx)
    ELSE [tk EXCEPT !.pc = "rows", !.tx = strat.tx, !.setId = strat.setId,
                    !.records = table.rows,
                    !.statusMap = MapOfNames(d.statuses),
                    !.typeMap = MapOfNames({ty.name : ty \in d.types})]

\* The execution has left through an exception: it is a fatal failure.
NoteFatal(h, tk, nt) ==
    IF nt.pc = "handler" THEN [h EXCEPT !.fatal = @ \cup {tk.e}] ELSE h

\* The step of task t to the task record nt.
TaskTo(t, nt) == task' = [task EXCEPT ![t] = nt]

BeginTo(t, nt) ==
    /\ TaskTo(t, nt)
    /\ hist' = NoteFatal(hist, task[t], nt)

\* execute_import / execute_user_import from get_job to the start of the row
\* loop (lines 329-423, 613-653): the file is read, the strategy applied, the
\* lookup maps built, the mapping normalised.
ExecBegin(t, fail) ==
    /\ task[t].pc = "exec"
    /\ MayFail(fail)
    /\ Failed(fail)
    /\ BeginTo(t, IF fail THEN ToHandler(task[t], "DBAPIError", TRUE, EmptyTx)
                  ELSE Begun(task[t], jobs[task[t].job],
                             Table(jobs[task[t].job].file),
                             StrategyOf(task[t], db), db))
    /\ UNCHANGED <<jobs, disk, up, db, nexec, pathIn, pathOut, rowIn, rowOut, anIn, anOut, hdrIn, hdrOut>>

\* "Row {i}: {str(e)}"
RowError(i, msg) == [row |-> i, msg |-> msg]

\* The session can reach the database: no earlier statement failed, none
\* fails now, and the pending rows pass the flush.
DbOk(tk, d, fail) == ~tk.broken /\ ~fail /\ Consistent(d, tk.tx)

\* The asset types a row flushed, tagged with the row.
TypesOf(r, tk) ==
    {[name |-> r.newTypes[j], by |-> <<tk.e, tk.i>>] : j \in DOMAIN r.newTypes}

\* A row loop that counts a failing record neither as imported nor as an
\* error.
AssetRowDoneDropsError(tk, r) ==
    IF r.dbFailed
    THEN [tk EXCEPT !.i = @ + 1, !.broken = TRUE, !.tx = EmptyTx]
    ELSE IF r.raised
    THEN [tk EXCEPT !.i = @ + 1, !.typeMap = r.typeMap,
                    !.tx.types = @ \cup TypesOf(r, tk)]
    ELSE [tk EXCEPT !.i = @ + 1, !.typeMap = r.typeMap,
                    !.tx.types = @ \cup TypesOf(r, tk),
                    !.tx.assets = @ \cup {r.data @@ [src |-> <<tk.e, tk.i>>]},
                    !.imported = @ + 1, !.ok = @ \cup {tk.i}]

\* A row loop that does not keep the type map from one record to the next.
AssetRowDoneForgetsTypes(tk, r) ==
    IF r.dbFailed
    THEN [tk EXCEPT !.i = @ + 1, !.broken = TRUE, !.tx = EmptyTx,
                    !.errors = Append(@, RowError(tk.i, r.msg))]
    ELSE IF r.raised
    THEN [tk EXCEPT !.i = @ + 1,
                    !.tx.types = @ \cup TypesOf(r, tk),
                    !.errors = Append(@, RowError(tk.i, r.msg))]
    ELSE [tk EXCEPT !.i = @ + 1,
                    !.tx.types = @ \cup TypesOf(r, tk),
                    !.tx.assets = @ \cup {r.data @@ [src |-> <<tk.e, tk.i>>]},
                    !.imported = @ + 1, !.ok = @ \cup {tk.i}]

\* Lines 582-589: the task after a record whose transformation gave r.
AssetRowDone(tk, r) ==
    IF r.dbFailed
    THEN [tk EXCEPT !.i = @ + 1, !.broken = TRUE, !.tx = EmptyTx,
                    !.errors = Append(@, RowError(tk.i, r.msg))]
    ELSE IF r.raised
    THEN [tk EXCEPT !.i = @ + 1, !.typeMap = r.typeMap,
                    !.tx.types = @ \cup TypesOf(r, tk),
                    !.errors = Append(@, RowError(tk.i, r.msg))]
    ELSE [tk EXCEPT !.i = @ + 1, !.typeMap = r.typeMap,
                    !.tx.types = @ \cup TypesOf(r, tk),
                    !.tx.assets = @ \cup {r.data @@ [src |-> <<tk.e, tk.i>>]},
                    !.imported = @ + 1, !.ok = @ \cup {tk.i}]

\* A row loop that looks for the serial number of the record among the assets
\* before it adds the asset, as create_asset does.
AssetRowStepChecksSerial(tk, d, fail) ==
    LET r == AssetRow(tk.records[tk.i + 1], tk.i, tk.sc.opts.mapping,
                      tk.setId, tk.typeMap,
                      [ dbOk |-> DbOk(tk, d, fail),
                        users |-> UsersSeen(d, tk.tx),
                        statusMap |-> tk.statusMap ])
    IN IF /\ ~r.raised
          /\ r.data.serial_number # None
          /\ \E a \in d.assets \cup tk.tx.assets :
                 a.serial_number = r.data.serial_number
       THEN AssetRowDone(tk, [r EXCEPT !.raised = TRUE, !.msg = "DuplicateResource"])
       ELSE AssetRowDone(tk, r)

\* One turn of the row loop of execute_import (lines 425-589).
AssetRowStep(tk, d, fail) ==
    AssetRowDone(tk, AssetRow(tk.records[tk.i + 1], tk.i, tk.sc.opts.mapping,
                              tk.setId, tk.typeMap,
                              [ dbOk |-> DbOk(tk, d, fail),
                                users |-> UsersSeen(d, tk.tx),
                                statusMap |-> tk.statusMap ]))

\* A row loop that rolls the session back when a record fails.
UserRowDoneRollsBack(tk, r) ==
    IF r.raised
    THEN [tk EXCEPT !.i = @ + 1,
                    !.broken = IF r.dbFailed THEN TRUE ELSE @,
                    !.tx = EmptyTx,
                    !.errors = Append(@, RowError(tk.i, r.msg))]
    ELSE IF r.op = "create"
    THEN [tk EXCEPT !.i = @ + 1, !.tx.users = @ \cup {r.user},
                    !.imported = @ + 1, !.ok = @ \cup {tk.i}]
    ELSE IF \E u \in tk.tx.users : u.id = r.user.id
    THEN [tk EXCEPT !.i = @ + 1,
                    !.tx.users = {u \in @ : u.id # r.user.id} \cup {r.user},
                    !.imported = @ + 1, !.ok = @ \cup {tk.i}]
    ELSE [tk EXCEPT !.i = @ + 1,
                    !.tx.upd = {u \in @ : u.id # r.user.id} \cup {r.user},
                    !.imported = @ + 1, !.ok = @ \cup {tk.i}]

\* Lines 696-723: the task after a record whose write is r.
UserRowDone(tk, r) ==
    IF r.raised
    THEN [tk EXCEPT !.i = @ + 1,
                    !.broken = IF r.dbFailed THEN TRUE ELSE @,
                    !.tx = IF r.dbFailed THEN EmptyTx ELSE @,
                    !.errors = Append(@, RowError(tk.i, r.msg))]
    ELSE IF r.op = "create"
    THEN [tk EXCEPT !.i = @ + 1, !.tx.users = @ \cup {r.user},
                    !.imported = @ + 1, !.ok = @ \cup {tk.i}]
    ELSE IF \E u \in tk.tx.users : u.id = r.user.id
    THEN [tk EXCEPT !.i = @ + 1,
                    !.tx.users = {u \in @ : u.id # r.user.id} \cup {r.user},
                    !.imported = @ + 1, !.ok = @ \cup {tk.i}]
    ELSE [tk EXCEPT !.i = @ + 1,
                    !.tx.upd = {u \in @ : u.id # r.user.id} \cup {r.user},
                    !.imported = @ + 1, !.ok = @ \cup {tk.i}]

\* One turn of the row loop of execute_user_import (lines 655-723).
UserRowStep(tk, d, fail) ==
    UserRowDone(tk, UserRow(tk.records[tk.i + 1], tk.e, tk.i, tk.sc.opts.mapping,
                            tk.setId,
                            [ dbOk |-> DbOk(tk, d, fail),
                              users |-> UsersSeen(d, tk.tx) ]))

RowStepOf(tk, d, fail) ==
    IF tk.sc.kind = "user" THEN UserRowStep(tk, d, fail)
    ELSE AssetRowStep(tk, d, fail)

\* A failure is injected only into a row that reaches the database.
RowTo(t, fail, nt) ==
    /\ fail => ~task[t].broken /\ nt.broken
    /\ TaskTo(t, nt)

\* The row loop: the next record is processed inside its try/except.
RowStep(t, fail) ==
    /\ task[t].pc = "rows"
    /\ task[t].i < Len(task[t].records)
    /\ MayFail(fail)
    /\ Failed(fail)
    /\ RowTo(t, fail, RowStepOf(task[t], db, fail))
    /\ UNCHANGED <<jobs, disk, up, db, nexec, hist, pathIn, pathOut, rowIn, rowOut, anIn, anOut, hdrIn, hdrOut>>

\* The outcome report of lines 593-598 and 727-732.
Report(tk) ==
    [imported |-> tk.imported, errors |-> tk.errors, set_id |-> tk.setId]

\* The report as the ghost history keeps it: with the execution, its kind,
\* the number of records and the rows that counted as imported.
Reported(tk) ==
    [ e |-> tk.e, kind |-> tk.sc.kind, rows |-> Len(tk.records),
      report |-> Report(tk), ok |-> tk.ok ]

\* Lines 591-598: the commit succeeds (good) and the report is returned, or
\* the exception leaves execute_import through line 603.
CommitTo(t, tk, good) ==
    IF good
    THEN /\ db' = Commit(db, tk.tx)
         /\ TaskTo(t, [tk EXCEPT !.pc = "finish", !.tx = EmptyTx,
                                 !.result = Report(tk)])
         /\ hist' = [hist EXCEPT !.reports = @ \cup {Reported(tk)}]
    ELSE /\ db' = db
         /\ TaskTo(t, ToHandler(tk, "Import process failed", TRUE, EmptyTx))
         /\ hist' = [hist EXCEPT !.fatal = @ \cup {tk.e}]

\* The commit after the row loop (lines 591, 725) and the return.
ExecCommit(t, fail) ==
    /\ task[t].pc = "rows"
    /\ task[t].i = Len(task[t].records)
    /\ MayFail(fail)
    /\ fail => ~task[t].broken
    /\ Failed(fail)
    /\ CommitTo(t, task[t], DbOk(task[t], db, fail))
    /\ UNCHANGED <<jobs, disk, up, nexec, pathIn, pathOut, rowIn, rowOut, anIn, anOut, hdrIn, hdrOut>>

\* Lines 768-775: the job is marked completed with the report and committed.
WrapperFinish(t, fail) ==
    /\ task[t].pc = "finish"
    /\ MayFail(fail)
    /\ Failed(fail)
    /\ IF fail
       THEN /\ TaskTo(t, ToHandler(task[t], "DBAPIError", TRUE, EmptyTx))
            /\ jobs' = jobs
       ELSE /\ jobs' = IF jobs[task[t].job] # NoJob
                       THEN [jobs EXCEPT ![task[t].job].status = "completed",
                                         ![task[t].job].result = task[t].result]
                       ELSE jobs
            /\ task' = [task EXCEPT ![t].pc = "done"]
    /\ UNCHANGED <<disk, up, db, nexec, hist, pathIn, pathOut, rowIn, rowOut, anIn, anOut, hdrIn, hdrOut>>

\* What the handler's commit of line 787 writes to the tables: the session
\* still holds what the failed execution added.
HandlerCommit(d, tx) == Commit(d, tx)

\* Lines 782-787 when the handler's statements succeed (good).
FailTo(tk, good) ==
    IF good /\ jobs[tk.job] # NoJob
    THEN /\ jobs' = [jobs EXCEPT ![tk.job].status = "failed",
                                 ![tk.job].error = tk.exc]
         /\ db' = HandlerCommit(db, tk.tx)
    ELSE UNCHANGED <<jobs, db>>

\* Lines 777-789: the handler records the failure on the same session; when
\* its own statements raise, the inner except only logs. The session is
\* closed when the wrapper returns.
WrapperFail(t, fail) ==
    /\ task[t].pc = "handler"
    /\ MayFail(fail)
    /\ fail => ~task[t].broken
    /\ Failed(fail)
    /\ FailTo(task[t], DbOk(task[t], db, fail))
    /\ task' = [task EXCEPT ![t] = [@ EXCEPT !.pc = "done", !.tx = EmptyTx]]
    /\ UNCHANGED <<disk, up, nexec, hist, pathIn, pathOut, rowIn, rowOut, anIn, anOut, hdrIn, hdrOut>>

-----------------------------------------------------------------------------
(* One record through the row transformation                               *)

MaxCols == 2

\* The columns a record is drawn from.
ColumnPool ==
    { <<<<"N","a","m","e">>, <<"p","c","1">>>>, <<<<"M","o","d","e","l">>, <<"m","1">>>>, <<<<"E","m","a","i","l">>, <<"b","@","x">>>>,
      <<<<"S","i","t","e">>, <<"h","q">>>>, <<<<" ","e","-","m","a","i","l"," ">>, <<"c","@","x">>>>, <<<<"N","o","t","e">>, None>>,
      <<<<"O","w","n","e","r">>, <<"c","@","x">>>>, <<<<"A","s","s","e","t","I","D">>, <<"x","7">>>> }

\* The status rows of scripts/bootstrap.py: "active" is the default.
SeedStatuses ==
    {[name |-> n, is_default |-> n = <<"a","c","t","i","v","e">>] : n \in SeedDb.statuses}

\* The targets a column's mapping entry is drawn from.
TargetPool == {NoTarget, "", "name", "location", "email"}

RECURSIVE ColumnSeqs(_)
\* The records of at most n columns with distinct headers.
ColumnSeqs(n) ==
    IF n = 0 THEN {<<>>}
    ELSE LET shorter == ColumnSeqs(n - 1)
         IN shorter \cup
            {Append(s, c) : s \in shorter, c \in ColumnPool}

DistinctHeaders(rec) ==
    \A j, k \in DOMAIN rec : rec[j][1] = rec[k][1] => j = k

\* The mappings of a record: one entry per column whose target is present.
MappingsOf(rec) ==
    { [j \in DOMAIN rec |-> <<rec[j][1], f[j]>>] :
          f \in [DOMAIN rec -> TargetPool] }

RECURSIVE DropAbsent(_)
\* The dict of the request: the entries whose target is present.
DropAbsent(m) ==
    IF m = <<>> THEN <<>>
    ELSE IF m[1][2] = NoTarget THEN DropAbsent(Tail(m))
    ELSE <<m[1]>> \o DropAbsent(Tail(m))

\* The records of at most n columns, each with every mapping of its columns.
RowInputs(n) ==
    UNION { { [kind |-> kind, rec |-> rec, fm |-> DropAbsent(m),
                statuses |-> SeedStatuses] :
                kind \in {"asset", "user"}, m \in MappingsOf(rec) } :
            rec \in {r \in ColumnSeqs(n) : DistinctHeaders(r)} }

NoRow == [kind |-> "asset", rec |-> <<>>, fm |-> <<>>, statuses |-> SeedStatuses]

\* The context a single record is transformed in: the seeded catalog with
\* the statuses of rowIn (lines 401-403).
RowCtx ==
    [ dbOk |-> TRUE, users |-> SeedDb.users,
      statusMap |-> MapOfNames({st.name : st \in rowIn.statuses}) ]

\* The asset_data the row loop builds for record 0 of an asset import.
AssetOutcome(rec, fm) ==
    AssetRow(rec, 0, fm, None, MapOfNames({ty.name : ty \in SeedDb.types}), RowCtx)

\* The user write the row loop makes for record 0 of a user import.
UserOutcome(rec, fm) == UserRow(rec, 1, 0, fm, None, RowCtx)

\* The row loop body is applied to rowIn.
ApplyRow ==
    /\ ~rowOut.done
    /\ rowOut' = IF rowIn.kind = "user"
                 THEN [done |-> TRUE, res |-> UserOutcome(rowIn.rec, rowIn.fm)]
                 ELSE [done |-> TRUE, res |-> AssetOutcome(rowIn.rec, rowIn.fm)]
    /\ UNCHANGED <<jobs, disk, up, db, task, envFails, nexec, hist, pathIn, pathOut, rowIn, anIn, anOut, hdrIn, hdrOut>>

-----------------------------------------------------------------------------
(* difflib.get_close_matches, as analyze_file calls it                     *)

\* The characters of the model in code-point order.
AsciiChars ==
    <<" ", "$", ",", "-", ".", "/">> \o DigitChars \o <<":", ";", "@">> \o UpperChars
        \o <<"_">> \o LowerChars

CodePoint(c) == CHOOSE n \in DOMAIN AsciiChars : AsciiChars[n] = c

RECURSIVE StrLess(_, _)
\* a < b as Python compares str.
StrLess(a, b) ==
    IF b = <<>> THEN FALSE
    ELSE IF a = <<>> THEN TRUE
    ELSE IF a[1] = b[1] THEN StrLess(Tail(a), Tail(b))
    ELSE CodePoint(a[1]) < CodePoint(b[1])

RECURSIVE Run(_, _, _, _, _, _)
\* The length of the common run of a from i and b from j, within a[..ahi]
\* and b[..bhi].
Run(a, b, i, j, ahi, bhi) ==
    IF i > ahi \/ j > bhi THEN 0
    ELSE IF a[i] # b[j] THEN 0
    ELSE 1 + Run(a, b, i + 1, j + 1, ahi, bhi)

\* The first of the blocks: earliest in a, then earliest in b.
FirstBlock(blocks) ==
    CHOOSE m \in blocks :
        \A o \in blocks : m.i < o.i \/ (m.i = o.i /\ m.j <= o.j)

\* The blocks of the greatest length among blocks.
Longest(blocks) == {m \in blocks : \A o \in blocks : o.k <= m.k}

\* SequenceMatcher.find_longest_match(alo, ahi, blo, bhi) without junk: of
\* all maximal matching blocks the one that starts earliest in a, and of
\* those the one that starts earliest in b.
LongestMatch(a, b, alo, ahi, blo, bhi) ==
    FirstBlock(Longest({[i |-> i, j |-> j, k |-> Run(a, b, i, j, ahi, bhi)] :
                            i \in alo..ahi, j \in blo..bhi}))

RECURSIVE Matches(_, _, _, _, _, _)
\* The block after m is counted, with the blocks to its left and right.
Around(a, b, alo, ahi, blo, bhi, m) ==
    IF m.k = 0 THEN 0
    ELSE m.k + Matches(a, b, alo, m.i - 1, blo, m.j - 1)
             + Matches(a, b, m.i + m.k, ahi, m.j + m.k, bhi)

\* The sum of the sizes of SequenceMatcher.get_matching_blocks().
Matches(a, b, alo, ahi, blo, bhi) ==
    IF alo > ahi \/ blo > bhi THEN 0
    ELSE Around(a, b, alo, ahi, blo, bhi, LongestMatch(a, b, alo, ahi, blo, bhi))

\* SequenceMatcher(None, x, word).ratio() = 2.0 * M / T as the fraction
\* num / den; 1.0 when both are empty.
Ratio(x, word) ==
    IF Len(x) + Len(word) = 0 THEN [num |-> 1, den |-> 1]
    ELSE [ num |-> 2 * Matches(x, word, 1, Len(x), 1, Len(word)),
           den |-> Len(x) + Len(word) ]

\* ratio >= cutoff, cutoff = 0.6
AtLeastCutoff(r) == 10 * r.num >= 6 * r.den

\* (score, x) < (score, y) as heapq.nlargest compares the tuples.
ScoredLess(x, y, word) ==
    \/ Ratio(x, word).num * Ratio(y, word).den < Ratio(y, word).num * Ratio(x, word).den
    \/ /\ Ratio(x, word).num * Ratio(y, word).den = Ratio(y, word).num * Ratio(x, word).den
       /\ StrLess(x, y)

\* difflib.get_close_matches(word, possibilities, n=1, cutoff=0.6): the
\* possibility with the greatest (score, string) among those at or above the
\* cutoff, as a list of at most one.
GetCloseMatches(word, possibilities) ==
    LET close == {x \in possibilities : AtLeastCutoff(Ratio(x, word))}
    IN IF close = {} THEN <<>>
       ELSE <<CHOOSE x \in close : \A y \in close : y = x \/ ScoredLess(y, x, word)>>

-----------------------------------------------------------------------------
(* The suggestion step: import_mapping_ai.suggest_mapping and its use      *)

\* JSON values as json.loads returns them. Numbers are counted in tenths.
JNull == [t |-> "null", v |-> <<>>]
JNum(n) == [t |-> "num", v |-> <<n>>]
JStr(str) == [t |-> "str", v |-> str]
JList(items) == [t |-> "list", v |-> items]
JDict(pairs) == [t |-> "dict", v |-> pairs]

\* bool(x)
Truthy(x) ==
    IF x.t = "null" THEN FALSE
    ELSE IF x.t = "num" THEN x.v # <<0>>
    ELSE x.v # <<>>

\* The dict x has the key.
JHas(x, key) == \E n \in DOMAIN x.v : x.v[n][1] = key

\* x[key] of a dict that has the key.
JGet(x, key) == x.v[CHOOSE n \in DOMAIN x.v : x.v[n][1] = key][2]

\* key in x: raises TypeError on a number.
JIn(key, x) ==
    IF x.t = "dict" THEN [raised |-> FALSE, val |-> JHas(x, key)]
    ELSE IF x.t = "list"
    THEN [raised |-> FALSE, val |-> \E n \in DOMAIN x.v : x.v[n] = JStr(key)]
    ELSE IF x.t = "str" THEN [raised |-> FALSE, val |-> Contains(x.v, key)]
    ELSE [raised |-> TRUE, val |-> FALSE]

\* iter(x): the items of a list, the keys of a dict, the characters of a
\* string; raises TypeError on a number or None.
JIter(x) ==
    IF x.t = "list" THEN [raised |-> FALSE, items |-> x.v]
    ELSE IF x.t = "dict"
    THEN [raised |-> FALSE, items |-> [n \in DOMAIN x.v |-> JStr(x.v[n][1])]]
    ELSE IF x.t = "str"
    THEN [raised |-> FALSE, items |-> [n \in DOMAIN x.v |-> JStr(<<x.v[n]>>)]]
    ELSE [raised |-> TRUE, items |-> <<>>]

\* What the provider's call gives: an exception (unreachable, timeout), a
\* text json.loads refuses, or a text it parses to val.
Raises == [kind |-> "raise", val |-> JNull]
Unparsable == [kind |-> "text", val |-> JNull]
Parses(val) == [kind |-> "json", val |-> val]

\* suggest_mapping (lines 36-112): without provider or key, or on any
\* exception, {"suggestions": []}; otherwise whatever json.loads returned.
SuggestMapping(configured, resp) ==
    IF ~configured \/ resp.kind # "json"
    THEN JDict(<< <<<<"s","u","g","g","e","s","t","i","o","n","s">>, JList(<<>>)>> >>)
    ELSE resp.val

\* Lines 177-178 for one suggestion sg; acc: [raised, mapping].
TakeSuggestion(acc, sg) ==
    IF acc.raised THEN acc
    ELSE IF sg.t # "dict" THEN [acc EXCEPT !.raised = TRUE]
    ELSE IF ~JHas(sg, <<"c","o","n","f","i","d","e","n","c","e">>) THEN acc
    ELSE IF JGet(sg, <<"c","o","n","f","i","d","e","n","c","e">>).t # "num"
    THEN [acc EXCEPT !.raised = TRUE]
    ELSE IF JGet(sg, <<"c","o","n","f","i","d","e","n","c","e">>).v[1] < 5 THEN acc
    ELSE IF ~JHas(sg, <<"h","e","a","d","e","r">>) \/ ~JHas(sg, <<"t","a","r","g","e","t">>)
    THEN [acc EXCEPT !.raised = TRUE]
    ELSE IF JGet(sg, <<"h","e","a","d","e","r">>).t \in {"list", "dict"}
    THEN [acc EXCEPT !.raised = TRUE]
    ELSE [acc EXCEPT !.mapping =
              {m \in @ : m[1] # JGet(sg, <<"h","e","a","d","e","r">>)}
                  \cup {<<JGet(sg, <<"h","e","a","d","e","r">>), JGet(sg, <<"t","a","r","g","e","t">>)>>}]

RECURSIVE TakeSuggestions(_, _)
\* The loop of line 175.
TakeSuggestions(items, acc) ==
    IF items = <<>> THEN acc
    ELSE TakeSuggestions(Tail(items), TakeSuggestion(acc, Head(items)))

\* Lines 175-178 on the iteration it of the suggestions sugg.
SuggestedFrom(sugg, it) ==
    IF it.raised
    THEN [raised |-> TRUE, suggestions |-> JList(<<>>), suggested_mapping |-> {}]
    ELSE [ raised |-> TakeSuggestions(it.items, [raised |-> FALSE, mapping |-> {}]).raised,
           suggestions |-> sugg,
           suggested_mapping |->
               TakeSuggestions(it.items, [raised |-> FALSE, mapping |-> {}]).mapping ]

\* Lines 172-173 once "suggestions" in ai_result was evaluated to has.
SuggestedOf(ai, has) ==
    IF has.raised
    THEN [raised |-> TRUE, suggestions |-> JList(<<>>), suggested_mapping |-> {}]
    ELSE IF ~has.val
    THEN [raised |-> FALSE, suggestions |-> JList(<<>>), suggested_mapping |-> {}]
    ELSE IF ai.t # "dict"
    THEN [raised |-> TRUE, suggestions |-> JList(<<>>), suggested_mapping |-> {}]
    ELSE SuggestedFrom(JGet(ai, <<"s","u","g","g","e","s","t","i","o","n","s">>),
                       JIter(JGet(ai, <<"s","u","g","g","e","s","t","i","o","n","s">>)))

\* Lines 163-178: suggestions and suggested_mapping from the result ai of
\* suggest_mapping.
Suggested(use_ai, ai) ==
    IF ~use_ai \/ ~Truthy(ai)
    THEN [raised |-> FALSE, suggestions |-> JList(<<>>), suggested_mapping |-> {}]
    ELSE SuggestedOf(ai, JIn(<<"s","u","g","g","e","s","t","i","o","n","s">>, ai))

-----------------------------------------------------------------------------
(* Analysis: analyze_file and analyze_user_file                            *)

\* The tables the analyze calls read: the uploaded samples and two more.
\* "owners": a person column with a value matching an email but for case, a
\* value as close to one email as to another, a missing value, a value
\* close to one email only, a value close to none, and a repeated value,
\* followed by a second person column. "headers": Name, Serial Tag, State,
\* Cost.
AnalysisTable(f) ==
    IF f = "owners" THEN
        [ ok |-> TRUE, rows |-> <<
            << <<<<"O","w","n","e","r">>, <<"A","@","X">>>>, <<<<"U","s","e","r">>, <<"b","@","x">>>> >>,
            << <<<<"O","w","n","e","r">>, <<"c","@","x">>>>, <<<<"U","s","e","r">>, None>> >>,
            << <<<<"O","w","n","e","r">>, None>>, <<<<"U","s","e","r">>, None>> >>,
            << <<<<"O","w","n","e","r">>, <<"a","@","x","y">>>>, <<<<"U","s","e","r">>, None>> >>,
            << <<<<"O","w","n","e","r">>, <<"z","z">>>>, <<<<"U","s","e","r">>, None>> >>,
            << <<<<"O","w","n","e","r">>, <<"c","@","x">>>>, <<<<"U","s","e","r">>, None>> >> >> ]
    ELSE IF f = "headers" THEN
        [ ok |-> TRUE, rows |-> <<
            << <<<<"N","a","m","e">>, <<"p","c","1">>>>, <<<<"S","e","r","i","a","l"," ","T","a","g">>, <<"s","1">>>>,
               <<<<"S","t","a","t","e">>, <<"a","c","t","i","v","e">>>>, <<<<"C","o","s","t">>, <<"1","0">>>> >> >> ]
    ELSE Table(f)

AnalysisFiles == Files \cup {"owners", "headers"}

\* list(df.columns)
Headers(table) ==
    IF table.rows = <<>> THEN <<>>
    ELSE [j \in DOMAIN table.rows[1] |-> table.rows[1][j][1]]

\* A second user and two field definitions, one global and one of a set.
UserId2 == [j \in 1..32 |-> "b"]

OtherUser ==
    [SeedUser EXCEPT !.id = UserId2, !.email = <<"b","@","x">>, !.full_name = <<"B","o","b">>,
                     !.roles = {<<"u","s","e","r">>}]

GlobalDef ==
    [key |-> <<"c","o","s","t">>, label |-> <<"C","o","s","t">>, asset_set_id |-> None, by |-> 0, n |-> 0]

ScopedDef ==
    [key |-> <<"s","t","a","t","e">>, label |-> <<"S","t","a","t","e">>, asset_set_id |-> GeneralSetId, by |-> 0, n |-> 1]

\* The catalogs and user directories the analyze calls run against.
Catalogs ==
    { SeedDb,
      [SeedDb EXCEPT !.users = @ \cup {OtherUser}],
      [SeedDb EXCEPT !.defs = {GlobalDef, ScopedDef}],
      [SeedDb EXCEPT !.users = @ \cup {OtherUser}, !.defs = {GlobalDef, ScopedDef}] }

\* static_fields of line 118
StaticFields ==
    { <<"n","a","m","e">>, <<"s","t","a","t","u","s">>, <<"s","e","r","i","a","l","_","n","u","m","b","e","r">>, <<"l","o","c","a","t","i","o","n">>, <<"t","a","g","s">>, <<"a","s","s","e","t","_","t","y","p","e","_","i","d">>,
      <<"p","u","r","c","h","a","s","e","_","d","a","t","e">>, <<"p","u","r","c","h","a","s","e","_","p","r","i","c","e">>, <<"v","e","n","d","o","r">>, <<"o","r","d","e","r","_","n","u","m","b","e","r">>,
      <<"w","a","r","r","a","n","t","y","_","e","n","d">>, <<"a","s","s","i","g","n","e","d","_","u","s","e","r","_","i","d">> }

\* standard_fields of line 207
StandardFields == { <<"e","m","a","i","l">>, <<"f","u","l","l","_","n","a","m","e">>, <<"r","o","l","e">>, <<"p","a","s","s","w","o","r","d">>, <<"i","s","_","a","c","t","i","v","e">> }

\* Line 122: the keys of the definitions that belong to no set.
CustomKeys(d) == {f.key : f \in {g \in d.defs : g.asset_set_id = None}}

\* Lines 128-134 for the header h; acc: [mapped, new].
Classified(acc, h, key, custom) ==
    IF key \in StaticFields
    THEN [acc EXCEPT !.mapped = Append(@, [header |-> h, target |-> "static", key |-> key])]
    ELSE IF key \in custom
    THEN [acc EXCEPT !.mapped = Append(@, [header |-> h, target |-> "custom", key |-> key])]
    ELSE [acc EXCEPT !.new = Append(@, h)]

RECURSIVE Classify(_, _, _)
\* The loop of line 127.
Classify(headers, custom, acc) ==
    IF headers = <<>> THEN acc
    ELSE Classify(Tail(headers), custom,
                  Classified(acc, Head(headers), FieldKey(Head(headers)), custom))

\* Lines 213-219 for the header h of a user file.
UserClassified(acc, h, key) ==
    IF key \in StandardFields
    THEN [acc EXCEPT !.mapped = Append(@, [header |-> h, target |-> "standard", key |-> key])]
    ELSE IF key = <<"n","a","m","e">>
    THEN [acc EXCEPT !.mapped = Append(@, [header |-> h, target |-> "standard",
                                          key |-> <<"f","u","l","l","_","n","a","m","e">>])]
    ELSE [acc EXCEPT !.new = Append(@, h)]

RECURSIVE UserClassify(_, _)
\* The loop of line 212.
UserClassify(headers, acc) ==
    IF headers = <<>> THEN acc
    ELSE UserClassify(Tail(headers),
                      UserClassified(acc, Head(headers), FieldKey(Head(headers))))


\* Line 139: the header may hold a person reference.
IsPersonHeader(h) ==
    \/ Contains(Lower(h), <<"u","s","e","r">>)
    \/ Contains(Lower(h), <<"o","w","n","e","r">>)
    \/ Contains(Lower(h), <<"e","m","a","i","l">>)

\* potential_user_cols[0]: the position of the first such header, 0 if none.
FirstPersonColumn(headers) ==
    IF \E j \in DOMAIN headers : IsPersonHeader(headers[j])
    THEN CHOOSE j \in DOMAIN headers :
             /\ IsPersonHeader(headers[j])
             /\ \A k \in 1..(j - 1) : ~IsPersonHeader(headers[k])
    ELSE 0

\* Line 149: df[col].dropna().unique() as a set; col is column j.
UniqueVals(rows, j) ==
    {rows[n][j][2] : n \in DOMAIN rows} \ {None}

\* user_map.keys() of line 145
EmailKeys(users) == {Lower(u.email) : u \in users}

\* user_map[key]
UserMapGet(users, key) == (CHOOSE u \in users : Lower(u.email) = key).id

\* Lines 152-160 for the value val_str: the id it is matched to, as a list
\* of at most one.
MatchOf(val_str, users, close) ==
    IF Lower(val_str) \in EmailKeys(users)
    THEN <<UserMapGet(users, Lower(val_str))>>
    ELSE IF close # <<>> THEN <<UserMapGet(users, close[1])>>
    ELSE <<>>

\* Lines 138-160: user_matches as the set of its items.
UserMatches(rows, j, users) ==
    IF j = 0 THEN {}
    ELSE { <<Strip(v), MatchOf(Strip(v), users,
                               GetCloseMatches(Lower(Strip(v)), EmailKeys(users)))[1]>> :
               v \in {w \in UniqueVals(rows, j) :
                         MatchOf(Strip(w), users,
                                 GetCloseMatches(Lower(Strip(w)), EmailKeys(users))) # <<>>} }

\* The analyze call raised exc.
AnalysisFailed(exc) ==
    [ ok |-> FALSE, err |-> exc, headers |-> <<>>, mapped_fields |-> <<>>,
      new_fields |-> <<>>, user_matches |-> {}, total_rows |-> 0,
      suggested_mapping |-> {}, suggestions |-> JList(<<>>) ]

\* A report that numbers the rows on from the calls made before.
AnalysisReportNumbered(table, cls, matches, sg) ==
    IF sg.raised THEN AnalysisFailed("AppException")
    ELSE [ ok |-> TRUE, err |-> "", headers |-> Headers(table),
           mapped_fields |-> cls.mapped, new_fields |-> cls.new,
           user_matches |-> matches, total_rows |-> Len(table.rows) + Len(anOut),
           suggested_mapping |-> sg.suggested_mapping,
           suggestions |-> sg.suggestions ]

\* The report of lines 180-188.
AnalysisReport(table, cls, matches, sg) ==
    IF sg.raised THEN AnalysisFailed("AppException")
    ELSE [ ok |-> TRUE, err |-> "", headers |-> Headers(table),
           mapped_fields |-> cls.mapped, new_fields |-> cls.new,
           user_matches |-> matches, total_rows |-> Len(table.rows),
           suggested_mapping |-> sg.suggested_mapping,
           suggestions |-> sg.suggestions ]

\* analyze_file (lines 111-194) on the table of the file, the tables d and
\* the result ai of suggest_mapping. A file that cannot be read raises
\* ValidationException in _read_file; a header that is no string raises at
\* h.lower() and leaves as AppException.
AnalyzeFile(table, d, use_ai, ai) ==
    IF ~table.ok THEN AnalysisFailed("ValidationException")
    ELSE IF \E j \in DOMAIN Headers(table) : ~IsString(Headers(table)[j])
    THEN AnalysisFailed("AppException")
    ELSE AnalysisReport(table,
                        Classify(Headers(table), CustomKeys(d),
                                 [mapped |-> <<>>, new |-> <<>>]),
                        UserMatches(table.rows, FirstPersonColumn(Headers(table)),
                                    d.users),
                        Suggested(use_ai, ai))

\* analyze_user_file (lines 201-232).
AnalyzeUserFile(table) ==
    IF ~table.ok THEN AnalysisFailed("ValidationException")
    ELSE IF \E j \in DOMAIN Headers(table) : ~IsString(Headers(table)[j])
    THEN AnalysisFailed("AppException")
    ELSE AnalysisReport(table,
                        UserClassify(Headers(table), [mapped |-> <<>>, new |-> <<>>]),
                        {},
                        [raised |-> FALSE, suggestions |-> JList(<<>>),
                         suggested_mapping |-> {}])


\* One suggestion as the prompt of suggest_mapping asks for it.
Suggestion(header, target, confidence) ==
    JDict(<< <<<<"h","e","a","d","e","r">>, header>>, <<<<"t","a","r","g","e","t">>, target>>,
             <<<<"c","o","n","f","i","d","e","n","c","e">>, confidence>> >>)

\* {"suggestions": sugg}
Suggestions(sugg) == JDict(<< <<<<"s","u","g","g","e","s","t","i","o","n","s">>, sugg>> >>)

\* What the provider may answer, in a list: failures, texts of the expected shape (two
\* confident answers that differ, one below the threshold, none), and JSON
\* texts of other shapes.
AiResponses ==
    << Raises, Unparsable,
      Parses(Suggestions(JList(<<Suggestion(JStr(<<"S","t","a","t","e">>), JStr(<<"s","t","a","t","u","s">>), JNum(9))>>))),
      Parses(Suggestions(JList(<<Suggestion(JStr(<<"S","t","a","t","e">>), JStr(<<"l","o","c","a","t","i","o","n">>), JNum(8))>>))),
      Parses(Suggestions(JList(<<Suggestion(JStr(<<"S","t","a","t","e">>), JStr(<<"s","t","a","t","u","s">>), JNum(4))>>))),
      Parses(Suggestions(JList(<<>>))),
      Parses(JDict(<<>>)),
      Parses(JNull),
      Parses(JNum(5)),
      Parses(JList(<<JStr(<<"s","u","g","g","e","s","t","i","o","n","s">>)>>)),
      Parses(Suggestions(JNum(5))),
      Parses(Suggestions(JList(<<JStr(<<"S","t","a","t","e">>)>>))),
      Parses(Suggestions(JList(<<JDict(<< <<<<"h","e","a","d","e","r">>, JStr(<<"S","t","a","t","e">>)>>,
                                          <<<<"c","o","n","f","i","d","e","n","c","e">>, JNum(9)>> >>)>>))),
      Parses(Suggestions(JList(<<Suggestion(JStr(<<"S","t","a","t","e">>), JStr(<<"s","t","a","t","u","s">>), JStr(<<"h","i","g","h">>))>>))),
      Parses(Suggestions(JList(<<JDict(<< <<<<"h","e","a","d","e","r">>, JStr(<<"S","t","a","t","e">>)>>,
                                          <<<<"t","a","r","g","e","t">>, JStr(<<"s","t","a","t","u","s">>)>> >>)>>))) >>

MaxCalls == 2

\* An analyze call that notes on the job that it was analysed.
AnalyzeCallMarksJob(j) ==
    /\ Len(anOut) < MaxCalls
    /\ jobs[j] # NoJob
    /\ anOut' = Append(anOut,
                       IF anIn.kind = "user"
                       THEN AnalyzeUserFile(AnalysisTable(jobs[j].file))
                       ELSE AnalyzeFile(AnalysisTable(jobs[j].file), db, anIn.use_ai,
                                        SuggestMapping(anIn.configured,
                                                       AiResponses[anIn.answer])))
    /\ anIn' = [anIn EXCEPT !.given =
                     Append(@, IF anIn.kind = "asset" /\ anIn.use_ai /\ anIn.configured
                               THEN anIn.answer ELSE 0)]
    /\ jobs' = [jobs EXCEPT ![j].status = "analyzed"]
    /\ UNCHANGED <<disk, up, db, task, envFails, nexec, hist, pathIn, pathOut,
                   rowIn, rowOut, hdrIn, hdrOut>>

\* routers/imports.py analyze_import: the job's file is analysed as an asset
\* or a user file; the provider, when it is asked, gives its answer.
AnalyzeCall(j) ==
    /\ Len(anOut) < MaxCalls
    /\ jobs[j] # NoJob
    /\ anOut' = Append(anOut,
                       IF anIn.kind = "user"
                       THEN AnalyzeUserFile(AnalysisTable(jobs[j].file))
                       ELSE AnalyzeFile(AnalysisTable(jobs[j].file), db, anIn.use_ai,
                                        SuggestMapping(anIn.configured,
                                                       AiResponses[anIn.answer])))
    /\ anIn' = [anIn EXCEPT !.given =
                     Append(@, IF anIn.kind = "asset" /\ anIn.use_ai /\ anIn.configured
                               THEN anIn.answer ELSE 0)]
    /\ UNCHANGED <<jobs, disk, up, db, task, envFails, nexec, hist, pathIn, pathOut,
                   rowIn, rowOut, hdrIn, hdrOut>>

\* The provider comes to answer differently: response k of the list.
ProviderAnswers(k) ==
    /\ anIn.kind = "asset" /\ anIn.use_ai /\ anIn.configured
    /\ Len(anOut) < MaxCalls
    /\ k # anIn.answer
    /\ anIn' = [anIn EXCEPT !.answer = k]
    /\ UNCHANGED <<jobs, disk, up, db, task, envFails, nexec, hist, pathIn, pathOut,
                   rowIn, rowOut, anOut, hdrIn, hdrOut>>

-----------------------------------------------------------------------------
(* The keys derived from one header                                        *)

MaxHeaderLen == 4

\* The characters the headers are made of: a capital, a small letter, a
\* digit, the underscore, the space and a punctuation mark.
HeaderChars == {"A", "b", "1", "_", " ", "-"}

RECURSIVE HeaderInputs(_)
\* The headers of at most n characters.
HeaderInputs(n) ==
    IF n = 0 THEN {<<>>}
    ELSE LET shorter == HeaderInputs(n - 1)
         IN shorter \cup {Append(h, c) : h \in shorter, c \in HeaderChars}

\* The header goes through analysis (line 128), through the registration of
\* a new field (lines 352, 383) and through the executor's normaliser, the
\* last once more on its own result.
DeriveKeys ==
    /\ ~hdrOut.done
    /\ hdrOut' = [ done |-> TRUE,
                   analysed |-> FieldKey(hdrIn),
                   registered |-> FieldKey(hdrIn),
                   executed |-> NormalizeHeader(hdrIn),
                   again |-> NormalizeHeader(NormalizeHeader(hdrIn)) ]
    /\ UNCHANGED <<jobs, disk, up, db, task, envFails, nexec, hist, pathIn, pathOut,
                   rowIn, rowOut, anIn, anOut, hdrIn>>

-----------------------------------------------------------------------------
(* The status of one record, against several status tables                 *)

\* The status tables: the bootstrapped one; that of system_service's setup
\* (services/system_service.py line 76), which has no default; the latter
\* after create_asset_status made a default status; the bootstrapped one
\* with a status "broken" more.
StatusCatalogs ==
    { SeedStatuses,
      {[name |-> <<"G","e","n","e","r","a","l">>, is_default |-> FALSE]},
      {[name |-> <<"G","e","n","e","r","a","l">>, is_default |-> FALSE], [name |-> <<"i","n","_","u","s","e">>, is_default |-> TRUE]},
      SeedStatuses \cup {[name |-> <<"b","r","o","k","e","n">>, is_default |-> FALSE]} }

\* The values of the status column.
StatusValues ==
    { <<"A","c","t","i","v","e">>, <<"d","e","p","l","o","y","e","d">>, <<"D","a","m","a","g","e","d">>, <<"j","u","n","k">>, <<"G","E","N","E","R","A","L">>, <<"i","n","_","u","s","e">>,
      <<"I","n"," ","S","t","o","r","a","g","e">>, <<"r","e","t","i","r","e","d">>, <<" ">> }

\* The records with a status column and another one: the column is found
\* through its header or through the mapping.
StatusInputs ==
    { [kind |-> "asset", rec |-> << <<h, v>>, <<<<"S","i","t","e">>, <<"h","q">>>> >>,
       fm |-> IF h = <<"C","o","n","d">> THEN << <<<<"C","o","n","d">>, "status">> >> ELSE <<>>,
       statuses |-> c] :
        h \in {<<"S","t","a","t","u","s">>, <<"C","o","n","d">>, <<"C","u","r","r","e","n","t"," ","S","t","a","t","e">>}, v \in StatusValues,
        c \in StatusCatalogs }


-----------------------------------------------------------------------------
(* create_asset of asset_service.py, beside the import of a file           *)

MaxCreate == 2

\* The AssetCreate payloads: name, serial_number and status (schemas/asset.py
\* lines 7-26; status defaults to "active").
CreateRequests ==
    { [name |-> <<"n","1">>, serial_number |-> <<"s","1">>, status |-> <<"a","c","t","i","v","e">>],
      [name |-> <<"n","2">>, serial_number |-> <<"s","1">>, status |-> <<"b","o","g","u","s">>],
      [name |-> <<"n","3">>, serial_number |-> <<>>, status |-> <<"a","c","t","i","v","e">>],
      [name |-> <<"n","4">>, serial_number |-> None, status |-> <<"a","c","t","i","v","e">>] }

\* An asset of the tables d has the serial number s.
SerialTaken(d, s) == s # None /\ \E a \in d.assets : a.serial_number = s

\* asset_service.py lines 106-160 for call number n against the committed
\* tables d: the exception raised ("" for none) and the tables afterwards.
\* Line 120 skips the lookup for a serial number that is None or empty; the
\* flush of line 133 then meets the unique constraint.
CreateAssetCall(d, data, n) ==
    IF data.status # <<>> /\ data.status \notin d.statuses
    THEN [exc |-> "ValidationException", d |-> d]
    ELSE IF data.serial_number \notin {None, <<>>} /\ SerialTaken(d, data.serial_number)
    THEN [exc |-> "DuplicateResource", d |-> d]
    ELSE IF SerialTaken(d, data.serial_number)
    THEN [exc |-> "IntegrityError", d |-> d]
    ELSE [ exc |-> "",
           d |-> [d EXCEPT !.assets = @ \cup
                     {[NewAssetData(data.name, None) EXCEPT
                           !.serial_number = data.serial_number,
                           !.status_id = IF data.status = <<>> THEN None
                                         ELSE data.status]
                      @@ [src |-> <<0, n>>]}] ]

\* A create request is served: its outcome is noted in the history with what
\* the tables held before.
CreateAsset(data) ==
    /\ Len(hist.creates) < MaxCreate
    /\ db' = CreateAssetCall(db, data, Len(hist.creates) + 1).d
    /\ hist' = [hist EXCEPT !.creates = Append(@,
                   [ data |-> data,
                     taken |-> SerialTaken(db, data.serial_number),
                     exc |-> CreateAssetCall(db, data, Len(hist.creates) + 1).exc,
                     added |-> CreateAssetCall(db, data, Len(hist.creates) + 1).d.assets
                                   \ db.assets ])]
    /\ UNCHANGED <<jobs, disk, up, task, envFails, nexec, pathIn, pathOut, rowIn, rowOut, anIn, anOut, hdrIn, hdrOut>>

-----------------------------------------------------------------------------
(* Specifications                                                          *)

NoHist == [fatal |-> {}, reports |-> {}, creates |-> <<>>]

\* No header was handled.
NoKeys == [done |-> FALSE]

\* No analyze request.
NoAnalysis == [kind |-> "asset", use_ai |-> FALSE, configured |-> FALSE, answer |-> 1,
                given |-> <<>>]

\* The state before any request: the bootstrapped catalog, no job, no file.
InitIdle ==
    /\ jobs = [j \in JobIds |-> NoJob]
    /\ disk = {}
    /\ up = UpIdle
    /\ db = SeedDb
    /\ task = [t \in Tasks |-> IdleTask]
    /\ envFails = 0
    /\ nexec = 0
    /\ hist = NoHist

Init ==
    /\ InitIdle
    /\ pathIn = <<>> /\ pathOut = [done |-> FALSE]
    /\ rowIn = NoRow /\ rowOut = [done |-> FALSE]
    /\ anIn = NoAnalysis /\ anOut = <<>>
    /\ hdrIn = <<>> /\ hdrOut = NoKeys

\* Uploads of the sample files by a non-admin user under the default limit.
Upload == \E f \in Files : UploadStart(<<"f",".","c","s","v">>, FALSE, None, 1, f)

Execute == \E t \in Tasks, j \in JobIds, sc \in Scenarios : Trigger(t, j, sc)

Start == \E t \in Tasks, fail \in BOOLEAN : WrapperStart(t, fail)

Begin == \E t \in Tasks, fail \in BOOLEAN : ExecBegin(t, fail)

Row == \E t \in Tasks, fail \in BOOLEAN : RowStep(t, fail)

CommitRows == \E t \in Tasks, fail \in BOOLEAN : ExecCommit(t, fail)

Finish == \E t \in Tasks, fail \in BOOLEAN : WrapperFinish(t, fail)

Fail == \E t \in Tasks, fail \in BOOLEAN : WrapperFail(t, fail)

Next ==
    \/ Upload
    \/ UploadChunk
    \/ Execute
    \/ Start
    \/ Begin
    \/ Row
    \/ CommitRows
    \/ Finish
    \/ Fail

\* Upload and execution of import jobs.
Spec == Init /\ [][Next]_vars

\* _read_file on every path of at most MaxPathTokens tokens.
InitReadPath ==
    /\ InitIdle
    /\ InitPath
    /\ rowIn = NoRow /\ rowOut = [done |-> FALSE]
    /\ anIn = NoAnalysis /\ anOut = <<>>
    /\ hdrIn = <<>> /\ hdrOut = NoKeys

SpecPath == InitReadPath /\ [][ReadPath]_vars

\* The row loop body on every record and mapping of at most MaxCols columns.
InitRow ==
    /\ InitIdle
    /\ pathIn = <<>> /\ pathOut = [done |-> FALSE]
    /\ rowIn \in RowInputs(MaxCols)
    /\ rowOut = [done |-> FALSE]
    /\ anIn = NoAnalysis /\ anOut = <<>>
    /\ hdrIn = <<>> /\ hdrOut = NoKeys

SpecRow == InitRow /\ [][ApplyRow]_vars

\* The file names, limits and sizes of the uploads.
UploadNames == { <<"a",".","c","s","v">>, <<"a",".","C","S","V">>, <<"a",".","e","x","e">>, <<"a",".","c","s","v",".","s","h">>, <<"c","s","v">>, None }

Settings == { None, <<"0">>, <<"1">>, <<" ","1">>, <<"-","1">>, <<"x">> }

Totals == { 0, 1, MB, MB + 1, 2 * MB + 1, DEFAULT_MAX_UPLOAD_BYTES + 1 }

UploadAny ==
    \E filename \in UploadNames, admin \in BOOLEAN, setting \in Settings,
       total \in Totals :
        UploadStart(filename, admin, setting, total, "clean")

NextUpload == UploadAny \/ UploadChunk

SpecUpload == Init /\ [][NextUpload]_vars

\* Analyze calls on an uploaded file, against each catalog and user
\* directory, with and without the suggestion step.
InitAnalyze ==
    /\ \E f \in AnalysisFiles : jobs = [j \in JobIds |-> NewJob(f)]
    /\ disk = JobIds
    /\ up = UpIdle
    /\ db \in Catalogs
    /\ task = [t \in Tasks |-> IdleTask]
    /\ envFails = 0
    /\ nexec = 0
    /\ hist = NoHist
    /\ pathIn = <<>> /\ pathOut = [done |-> FALSE]
    /\ rowIn = NoRow /\ rowOut = [done |-> FALSE]
    /\ anIn \in {[NoAnalysis EXCEPT !.kind = "user"]}
                    \cup {[NoAnalysis EXCEPT !.use_ai = u, !.configured = c] : u, c \in BOOLEAN}
    /\ anOut = <<>>
    /\ hdrIn = <<>> /\ hdrOut = NoKeys

Analyze == \E j \in JobIds : AnalyzeCall(j)

Provider == \E k \in DOMAIN AiResponses : ProviderAnswers(k)

NextAnalyze == Analyze \/ Provider

SpecAnalyze == InitAnalyze /\ [][NextAnalyze]_vars

\* Every header of at most MaxHeaderLen characters through the key
\* derivations.
InitHeader ==
    /\ InitIdle
    /\ pathIn = <<>> /\ pathOut = [done |-> FALSE]
    /\ rowIn = NoRow /\ rowOut = [done |-> FALSE]
    /\ anIn = NoAnalysis /\ anOut = <<>>
    /\ hdrIn \in HeaderInputs(MaxHeaderLen)
    /\ hdrOut = NoKeys

SpecHeader == InitHeader /\ [][DeriveKeys]_vars

\* The row loop body on the records with a status column, against each
\* status table.
InitStatus ==
    /\ InitIdle
    /\ pathIn = <<>> /\ pathOut = [done |-> FALSE]
    /\ rowIn \in StatusInputs
    /\ rowOut = [done |-> FALSE]
    /\ anIn = NoAnalysis /\ anOut = <<>>
    /\ hdrIn = <<>> /\ hdrOut = NoKeys

SpecStatus == InitStatus /\ [][ApplyRow]_vars


\* Uploads of the files with serial numbers, repeated or not.
SerialUpload ==
    \E f \in {"dupserial", "dupowner", "oneserial"} : UploadStart(<<"f",".","c","s","v">>, FALSE, None, 1, f)

\* The asset import of the job without options.
SerialExecute ==
    \E t \in Tasks, j \in JobIds :
        Trigger(t, j, [kind |-> "asset", strategy |-> "MERGE", opts |-> BaseOpts])

Create == \E data \in CreateRequests : CreateAsset(data)

NextSerial ==
    \/ SerialUpload
    \/ UploadChunk
    \/ SerialExecute
    \/ Start
    \/ Begin
    \/ Row
    \/ CommitRows
    \/ Finish
    \/ Fail
    \/ Create

\* Single-record creation beside imports of files with repeated serials.
SpecSerial == Init /\ [][NextSerial]_vars


\* Two background tasks at once: FastAPI runs the wrapper of every execute
\* request as a task of its own.
RaceTasks == {1, 2}

InitRace ==
    /\ jobs = [j \in JobIds |-> NoJob]
    /\ disk = {}
    /\ up = UpIdle
    /\ db = SeedDb
    /\ task = [t \in RaceTasks |-> IdleTask]
    /\ envFails = 0
    /\ nexec = 0
    /\ hist = NoHist
    /\ pathIn = <<>> /\ pathOut = [done |-> FALSE]
    /\ rowIn = NoRow /\ rowOut = [done |-> FALSE]
    /\ anIn = NoAnalysis /\ anOut = <<>>
    /\ hdrIn = <<>> /\ hdrOut = NoKeys

\* Uploads of a file that needs a new asset type and of one that needs none.
RaceUpload ==
    \E f \in {"clean", "plain"} : UploadStart(<<"f",".","c","s","v">>, FALSE, None, 1, f)

\* Execute requests for the job, each handed to a free task.
RaceExecute ==
    \E t \in RaceTasks, j \in JobIds :
        Trigger(t, j, [kind |-> "asset", strategy |-> "MERGE", opts |-> BaseOpts])

RaceStart == \E t \in RaceTasks, fail \in BOOLEAN : WrapperStart(t, fail)

RaceBegin == \E t \in RaceTasks, fail \in BOOLEAN : ExecBegin(t, fail)

RaceRow == \E t \in RaceTasks, fail \in BOOLEAN : RowStep(t, fail)

RaceCommit == \E t \in RaceTasks, fail \in BOOLEAN : ExecCommit(t, fail)

RaceFinish == \E t \in RaceTasks, fail \in BOOLEAN : WrapperFinish(t, fail)

RaceFail == \E t \in RaceTasks, fail \in BOOLEAN : WrapperFail(t, fail)

NextRace ==
    \/ RaceUpload
    \/ UploadChunk
    \/ RaceExecute
    \/ RaceStart
    \/ RaceBegin
    \/ RaceRow
    \/ RaceCommit
    \/ RaceFinish
    \/ RaceFail

\* Executions of one job by two tasks.
SpecRace == InitRace /\ [][NextRace]_vars

-----------------------------------------------------------------------------
(* Properties                                                              *)

\* The rows execution e has in the tables d.
WrittenBy(d, e) ==
    [ sets |-> {s \in d.sets : s.by = e},
      defs |-> {f \in d.defs : f.by = e},
      types |-> {ty \in d.types : ty.by[1] = e},
      assets |-> {a \in d.assets : a.src[1] = e},
      users |-> {u \in d.users : \E tag \in u.by : tag[1] = e} ]

\* The rows record i of execution e has in the tables d.
WrittenByRow(d, e, i) ==
    [ types |-> {ty \in d.types : ty.by = <<e, i>>},
      assets |-> {a \in d.assets : a.src = <<e, i>>},
      users |-> {u \in d.users : <<e, i>> \in u.by} ]

\* The row numbers of the entries of an error list.
ErrorRows(errors) == {errors[j].row : j \in DOMAIN errors}

\* A record without its column j.
DropColumn(rec, j) == SubSeq(rec, 1, j - 1) \o SubSeq(rec, j + 1, Len(rec))

\* C1: the status of an import job only moves pending -> running -> completed
\* or failed: upload creates the job in status pending, and no step changes
\* the status of a job that is completed or failed.
C1_StatusLifecycle ==
    [][\A j \in JobIds :
          \/ jobs'[j].status = jobs[j].status
          \/ jobs[j] = NoJob /\ jobs'[j].status = "pending"
          \/ jobs[j].status = "pending" /\ jobs'[j].status = "running"
          \/ jobs[j].status = "running" /\ jobs'[j].status \in {"completed", "failed"}]_vars

\* C2: an execution that failed fatally has no row in any table - no asset
\* set, field definition, asset type, asset or user - at any later time,
\* also after the wrapper has recorded the job as failed.
C2_FatalPersistsNothing ==
    \A e \in hist.fatal :
        WrittenBy(db, e) = [sets |-> {}, defs |-> {}, types |-> {}, assets |-> {},
                            users |-> {}]

\* C3: when the wrapper has returned from an execution requested for an
\* existing job, the job is completed with the execution's report as its
\* result, or failed with the error message in its error field. Stated for
\* the runs in which the database itself never fails.
C3_WrapperEndsJob ==
    \A t \in Tasks :
        task[t].pc = "done" /\ task[t].existed /\ envFails = 0 =>
            \/ /\ jobs[task[t].job].status = "completed"
               /\ jobs[task[t].job].result = task[t].result
               /\ task[t].exc = ""
            \/ /\ jobs[task[t].job].status = "failed"
               /\ jobs[task[t].job].error = task[t].exc
               /\ task[t].exc # ""

\* C4: in every report returned, imported + len(errors) is the number of rows
\* of the file; every row is counted in imported or has one error entry,
\* never both and never neither, and the error entries are in increasing row
\* order.
C4_EveryRowCountedOnce ==
    \A r \in hist.reports :
        /\ r.report.imported + Len(r.report.errors) = r.rows
        /\ r.report.imported = Cardinality(r.ok)
        /\ \A i \in 0..(r.rows - 1) : (i \in r.ok) # (i \in ErrorRows(r.report.errors))
        /\ r.ok \cup ErrorRows(r.report.errors) \subseteq 0..(r.rows - 1)
        /\ \A j, k \in DOMAIN r.report.errors :
               j < k => r.report.errors[j].row < r.report.errors[k].row

\* A report counts rows as imported and lists an error for another row.
C4_Witness ==
    \E r \in hist.reports : r.report.imported > 0 /\ r.report.errors # <<>>

\* C5: once an execution has returned its report, the record of every row it
\* counted in imported is in the tables, whether the row came before or after
\* a row that failed.
C5_ImportedRowsPersist ==
    \A r \in hist.reports : \A i \in r.ok :
        IF r.kind = "user" THEN WrittenByRow(db, r.e, i).users # {}
        ELSE WrittenByRow(db, r.e, i).assets # {}

\* A report whose failed row lies between two imported rows.
C5_Witness ==
    \E r \in hist.reports : \E i, j, k \in 0..(r.rows - 1) :
        /\ i < j /\ j < k
        /\ i \in r.ok /\ k \in r.ok
        /\ j \in ErrorRows(r.report.errors)

\* C6: a row that ends in the error list of a returned report has no row of
\* its own in the tables: no asset, no user, no asset type created while it
\* was processed.
C6_ErrorRowWritesNothing ==
    \A r \in hist.reports : \A i \in ErrorRows(r.report.errors) :
        WrittenByRow(db, r.e, i) = [types |-> {}, assets |-> {}, users |-> {}]

\* C7: a column whose mapping entry is "" contributes nothing to the record
\* built from the row, in asset and in user imports: the outcome is the one
\* of the same row without that column.
C7_IgnoredColumnContributesNothing ==
    rowOut.done =>
        \A j \in DOMAIN rowIn.rec :
            DictGet(rowIn.fm, NormalizeHeader(rowIn.rec[j][1])) = "" =>
                rowOut.res = IF rowIn.kind = "user"
                             THEN UserOutcome(DropColumn(rowIn.rec, j), rowIn.fm)
                             ELSE AssetOutcome(DropColumn(rowIn.rec, j), rowIn.fm)

C9_OnlyInsideUploadDir ==
    pathOut.done /\ pathIn # <<>> =>
        /\ pathOut.opened # None => IsInside(UPLOAD_DIR, pathOut.opened)
        /\ Contains(pathIn, <<":","/","/">>) \/ ~IsInside(UPLOAD_DIR, Resolve(pathIn)) =>
               pathOut.opened = None /\ pathOut.err # ""

\* C10: an upload whose extension is not allowed, or whose size exceeds the
\* limit that applies, is rejected, and a rejected upload leaves no job and
\* no file.
C10_RejectedUploadLeavesNothing ==
    /\ up.state = "rejected" => jobs[up.job] = NoJob /\ up.job \notin disk
    /\ up.state = "accepted" => ValidExt(up.filename) /\ up.total <= up.max


\* The set reference of an EXISTING_SET request is missing or names no set of
\* the tables d.
NoSuchSet(opts, d) ==
    opts.asset_set_id = None \/ ~RefersTo(opts.asset_set_id, d.sets)

\* C11: under EXISTING_SET, for asset and for user imports, a reference that
\* is missing or names no existing set fails the execution before the row
\* loop: the execution never enters the loop, imports no row and produces no
\* per-row error.
C11_ExistingSetCheckedFirst ==
    \A t \in Tasks :
        /\ task[t].sc.strategy = "EXISTING_SET"
        /\ NoSuchSet(task[t].sc.opts, db)
        /\ task[t].pc \notin {"idle", "start", "exec"}
        => /\ task[t].pc \in {"handler", "done"}
           /\ task[t].i = 0
           /\ task[t].imported = 0
           /\ task[t].errors = <<>>


\* C12: when a NEW_SET execution has committed and returned, it has created
\* exactly one set, whose id is the report's set_id; every new field of the
\* request is a field definition scoped to that set; and every asset or user
\* the execution imported is attached to that set. The definitions are in the
\* session when the row loop starts.
C12_NewSetCreatesOneSet ==
    \A t \in Tasks :
        /\ task[t].sc.strategy = "NEW_SET" /\ task[t].pc = "finish" =>
               /\ Cardinality(WrittenBy(db, task[t].e).sets) = 1
               /\ \A s \in WrittenBy(db, task[t].e).sets :
                      task[t].result.set_id = s.id
               /\ \A j \in DOMAIN task[t].sc.opts.new_fields :
                      \E f \in WrittenBy(db, task[t].e).defs :
                          /\ f.label = task[t].sc.opts.new_fields[j]
                          /\ f.asset_set_id = task[t].result.set_id
               /\ \A a \in WrittenBy(db, task[t].e).assets :
                      a.asset_set_id = task[t].result.set_id
               /\ \A u \in WrittenBy(db, task[t].e).users :
                      u.asset_set_id = task[t].result.set_id
        /\ task[t].sc.strategy = "NEW_SET" /\ task[t].pc = "rows" /\ task[t].i = 0 =>
               \A j \in DOMAIN task[t].sc.opts.new_fields :
                   \E f \in task[t].tx.defs :
                       /\ f.label = task[t].sc.opts.new_fields[j]
                       /\ f.asset_set_id = task[t].setId


\* The execution of task tk runs without a grouping entity: MERGE for assets,
\* GLOBAL for users.
Ungrouped(tk) ==
    \/ tk.sc.kind = "asset" /\ tk.sc.strategy = "MERGE"
    \/ tk.sc.kind = "user" /\ tk.sc.strategy = "GLOBAL"

\* C13: a MERGE asset import or GLOBAL user import creates and references no
\* set: its session never holds a new set, the report's set_id is empty, and
\* once it has committed every asset or user it imported has no set.
C13_NoSetUnderMergeOrGlobal ==
    \A t \in Tasks :
        Ungrouped(task[t]) =>
            /\ task[t].tx.sets = {} /\ task[t].setId = None
            /\ task[t].pc = "finish" =>
                   /\ task[t].result.set_id = None
                   /\ WrittenBy(db, task[t].e).sets = {}
                   /\ \A a \in WrittenBy(db, task[t].e).assets : a.asset_set_id = None
                   /\ \A u \in WrittenBy(db, task[t].e).users : u.asset_set_id = None

\* A GLOBAL user import has committed after updating a user that an earlier
\* execution had imported.
C13_Witness ==
    \E t \in Tasks :
        /\ task[t].sc.kind = "user" /\ task[t].sc.strategy = "GLOBAL"
        /\ task[t].pc = "finish" /\ task[t].imported > 0
        /\ \E u \in WrittenBy(db, task[t].e).users : \E tag \in u.by : tag[1] # task[t].e


\* The user table d holds the identity of the fields f as an import into the
\* set setId leaves it: one user with the email, in that set, with the
\* row's extra attributes among its own and the row's name if it has one.
HoldsIdentity(d, f, setId) ==
    \E u \in d.users :
        /\ u.email = f.email
        /\ u.asset_set_id = setId
        /\ f.extra \subseteq u.extra
        /\ f.full_name # None => u.full_name = f.full_name

\* The imported rows of task tk other than i that come after it and carry
\* the email of the fields f.
LaterSameEmail(tk, i, f) ==
    {j \in tk.ok : j > i /\ UserFields(tk.records[j + 1], tk.sc.opts.mapping).email = f.email}

\* C14: once a user import has committed, no two users share an email, and
\* the last imported row of each email is in the table: one identity with
\* that email, in the import's set, with the row's extra attributes merged in
\* and its name - also when the identity existed before or was created by an
\* earlier row of the same file.
C14_OneIdentityPerEmail ==
    \A t \in Tasks :
        task[t].sc.kind = "user" /\ task[t].pc = "finish" =>
            /\ \A u, w \in db.users : u.email = w.email => u = w
            /\ \A i \in task[t].ok :
                   LaterSameEmail(task[t], i, UserFields(task[t].records[i + 1],
                                                         task[t].sc.opts.mapping)) = {}
                   => HoldsIdentity(db, UserFields(task[t].records[i + 1],
                                                   task[t].sc.opts.mapping),
                                    task[t].setId)


\* Column j of the asset record rec is a person reference under the mapping
\* fm, and its value names no user of the directory users: it is no UUID and
\* the email of none.
UnknownPerson(rec, fm, j, users) ==
    /\ IsString(rec[j][1])
    /\ ValStr(rec[j][2]) # None
    /\ DictGet(fm, NormalizeHeader(rec[j][1])) # ""
    /\ TargetOf(DictGet(fm, NormalizeHeader(rec[j][1])),
                NormalizeHeader(rec[j][1])) = "assigned_user_id"
    /\ ~IsUUID(ValStr(rec[j][2]))
    /\ ~\E u \in users : u.email = ValStr(rec[j][2])

\* C16: in an asset import a person reference that names no known user is
\* not dropped: the row fails, or the value is kept on the asset, as the
\* assigned user or in the extra attributes.
C16_UnknownPersonNotDropped ==
    rowOut.done /\ rowIn.kind = "asset" =>
        \A j \in DOMAIN rowIn.rec :
            UnknownPerson(rowIn.rec, rowIn.fm, j, RowCtx.users) =>
                \/ rowOut.res.raised
                \/ rowOut.res.data.assigned_user_id = ValStr(rowIn.rec[j][2])
                \/ \E p \in rowOut.res.data.extra : p[2] = rowIn.rec[j][2]


\* The known emails at or above the cutoff that no other known email beats
\* as a match of word.
BestEmails(word, keys) ==
    { x \in keys :
        /\ AtLeastCutoff(Ratio(x, word))
        /\ \A y \in keys :
               Ratio(y, word).num * Ratio(x, word).den
                   <= Ratio(x, word).num * Ratio(y, word).den }

\* The ids the value val may be matched to: the user with that email but for
\* case, else the user of the single best email, else none.
PersonOf(val, users) ==
    IF Lower(val) \in EmailKeys(users)
    THEN {u.id : u \in {w \in users : Lower(w.email) = Lower(val)}}
    ELSE IF Cardinality(BestEmails(Lower(val), EmailKeys(users))) = 1
    THEN {u.id : u \in {w \in users : Lower(w.email) \in BestEmails(Lower(val), EmailKeys(users))}}
    ELSE {}

\* The matches of the values of column j of the rows, 0 for no column.
PersonMatches(rows, j, users) ==
    IF j = 0 THEN {}
    ELSE UNION { {<<Strip(v), id>> : id \in PersonOf(Strip(v), users)} :
                     v \in UniqueVals(rows, j) }

\* C15: the user_matches of an asset analysis hold, for each value of the
\* person column, the user whose email equals it but for case; else the user
\* of the one email that is its best match at similarity 0.6 or more; and no
\* entry for a value below the cutoff or with tied best matches.
C15_PersonMatching ==
    \A k \in DOMAIN anOut, j \in JobIds :
        anOut[k].ok /\ anIn.kind = "asset" =>
            anOut[k].user_matches =
                PersonMatches(AnalysisTable(jobs[j].file).rows,
                              FirstPersonColumn(Headers(AnalysisTable(jobs[j].file))),
                              db.users)


\* The item is a suggestion: an object with a header, a target (a field name
\* or null) and a numeric confidence.
IsSuggestion(item) ==
    /\ item.t = "dict"
    /\ JHas(item, <<"h","e","a","d","e","r">>) /\ JHas(item, <<"t","a","r","g","e","t">>) /\ JHas(item, <<"c","o","n","f","i","d","e","n","c","e">>)
    /\ JGet(item, <<"h","e","a","d","e","r">>).t = "str"
    /\ JGet(item, <<"t","a","r","g","e","t">>).t \in {"str", "null"}
    /\ JGet(item, <<"c","o","n","f","i","d","e","n","c","e">>).t = "num"

\* The answer is of the expected shape: {"suggestions": [suggestion, ...]}.
ExpectedShape(val) ==
    /\ val.t = "dict"
    /\ JHas(val, <<"s","u","g","g","e","s","t","i","o","n","s">>)
    /\ JGet(val, <<"s","u","g","g","e","s","t","i","o","n","s">>).t = "list"
    /\ \A n \in DOMAIN JGet(val, <<"s","u","g","g","e","s","t","i","o","n","s">>).v :
           IsSuggestion(JGet(val, <<"s","u","g","g","e","s","t","i","o","n","s">>).v[n])

\* The suggestion step of call k failed: no provider is configured, or the
\* provider was asked and raised, or answered a text that is no JSON or JSON
\* of another shape.
SuggestionStepFailed(k) ==
    /\ anIn.kind = "asset" /\ anIn.use_ai
    /\ \/ ~anIn.configured
       \/ /\ anIn.given[k] # 0
          /\ \/ AiResponses[anIn.given[k]].kind # "json"
             \/ ~ExpectedShape(AiResponses[anIn.given[k]].val)

\* The file of job j can be analysed: it is read and its headers are strings.
Analysable(j) ==
    /\ AnalysisTable(jobs[j].file).ok
    /\ \A n \in DOMAIN Headers(AnalysisTable(jobs[j].file)) :
           IsString(Headers(AnalysisTable(jobs[j].file))[n])

\* C17: a failure of the suggestion step (provider not configured,
\* unreachable or timed out, answer unparsable or of the wrong shape) never
\* reaches the caller: the analysis of a readable file returns its report,
\* with an empty suggestion set.
C17_SuggestionFailureDegrades ==
    \A k \in DOMAIN anOut, j \in JobIds :
        SuggestionStepFailed(k) /\ Analysable(j) =>
            /\ anOut[k].ok
            /\ anOut[k].suggestions = JList(<<>>)
            /\ anOut[k].suggested_mapping = {}


\* C18: an analyze call, of an asset or a user file, succeeding or failing,
\* changes nothing that is persisted: the jobs, the tables (assets, users,
\* sets, field definitions, statuses, types) and the uploaded files are
\* after the call what they were before it.
C18_AnalysisMutatesNothing ==
    [][anOut' # anOut => UNCHANGED <<jobs, db, disk>>]_vars

\* Analyses were made of an asset file with person matches and accepted
\* suggestions, and of a file that cannot be analysed.
C18_Witness ==
    /\ \E k \in DOMAIN anOut :
           /\ anOut[k].ok
           /\ anOut[k].user_matches # {}
           /\ anOut[k].suggested_mapping # {}
    /\ \E k \in DOMAIN anOut : ~anOut[k].ok


MapsTo(report, header, key) ==
    \E n \in DOMAIN report.mapped_fields :
        /\ report.mapped_fields[n].header = header
        /\ report.mapped_fields[n].key = key

\* C20: with no explicit mapping and no custom field in the catalog, the
\* analysis of a file with the headers Name, Serial Tag, State, Cost
\* classifies Name as the field name, Serial Tag as serial_number and State as
\* status, the last two through the synonyms, and reports Cost alone as new.
C20_ResolverOrderInAnalysis ==
    \A k \in DOMAIN anOut, j \in JobIds :
        /\ anIn.kind = "asset"
        /\ anOut[k].ok
        /\ Headers(AnalysisTable(jobs[j].file)) = <<<<"N","a","m","e">>, <<"S","e","r","i","a","l"," ","T","a","g">>, <<"S","t","a","t","e">>, <<"C","o","s","t">>>>
        /\ db.defs = {}
        => /\ MapsTo(anOut[k], <<"N","a","m","e">>, <<"n","a","m","e">>)
           /\ MapsTo(anOut[k], <<"S","e","r","i","a","l"," ","T","a","g">>, <<"s","e","r","i","a","l","_","n","u","m","b","e","r">>)
           /\ MapsTo(anOut[k], <<"S","t","a","t","e">>, <<"s","t","a","t","u","s">>)
           /\ anOut[k].new_fields = <<<<"C","o","s","t">>>>


\* The key has the normal form: small letters, digits and single
\* underscores, none at either end.
NormalForm(key) ==
    /\ \A n \in DOMAIN key : IsAlnumLower(key[n]) \/ key[n] = "_"
    /\ \A n \in DOMAIN key : key[n] = "_" => n # 1 /\ n # Len(key) /\ key[n + 1] # "_"

\* C21: the executor's header normaliser is idempotent: the key of a header
\* is lowercase, made of letters, digits and single underscores with none at
\* either end, and normalising it again gives the same key.
C21_NormalizeIdempotent ==
    hdrOut.done => /\ hdrOut.again = hdrOut.executed
                   /\ NormalForm(hdrOut.executed)

\* A header with a capital, outer blanks and punctuation was normalised to
\* a different key that holds an underscore.
C21_Witness ==
    /\ hdrOut.done
    /\ hdrOut.executed # hdrIn
    /\ \E n \in DOMAIN hdrOut.executed : hdrOut.executed[n] = "_"
    /\ \E n \in DOMAIN hdrIn : hdrIn[n] = "A"
    /\ hdrIn # <<>> /\ hdrIn[1] \in {" ", "-", "_"}


\* C28: the key analysis classifies a header by, and the key under which a
\* NEW_SET or MERGE import registers a new field for it, are the executor's
\* normalised key of that header.
C28_SameKeyEverywhere ==
    hdrOut.done => /\ hdrOut.analysed = hdrOut.executed
                   /\ hdrOut.registered = hdrOut.executed


\* The value of the first of the columns cols of the record, None if there
\* is none.
FirstValue(rec, cols) ==
    IF cols = {} THEN None
    ELSE rec[CHOOSE j \in cols : \A k \in cols : j <= k][2]

\* The columns of the record that the mapping sends to the name.
NameColumns(rec, fm) ==
    {j \in DOMAIN rec : DictGet(fm, NormalizeHeader(rec[j][1])) = "name"}

\* The columns of the record whose header is a name synonym.
SynonymColumns(rec) ==
    {j \in DOMAIN rec : NormalizeHeader(rec[j][1]) \in NameSynonyms}

\* The columns of the record headed AssetID.
IdColumns(rec) == {j \in DOMAIN rec : rec[j][1] = <<"A","s","s","e","t","I","D">>}

\* "Imported Asset {index}"
Placeholder(i) == <<"I","m","p","o","r","t","e","d"," ","A","s","s","e","t"," ">> \o IntStr(i)

\* The first of the values that is not empty, else the placeholder.
FirstNonEmpty(vals, i) ==
    IF \E n \in DOMAIN vals : ~FalsyValue(vals[n])
    THEN vals[CHOOSE n \in DOMAIN vals :
                  /\ ~FalsyValue(vals[n])
                  /\ \A k \in 1..(n - 1) : FalsyValue(vals[k])]
    ELSE Placeholder(i)

C22_WitnessPlaceholder ==
    /\ rowOut.done /\ rowIn.kind = "asset"
    /\ rowIn.rec # <<>>
    /\ NameColumns(rowIn.rec, rowIn.fm) \cup SynonymColumns(rowIn.rec)
           \cup IdColumns(rowIn.rec) = {}
    /\ rowOut.res.data.name = Placeholder(0)


\* The status rows of rowIn whose name is key but for case.
StatusNamed(key) == {st \in rowIn.statuses : Lower(st.name) = key}

\* The names of the status rows the value val may resolve to: the row named
\* by the value, else the row named by its synonym, else the default rows.
StatusFor(val) ==
    IF StatusNamed(Lower(val)) # {}
    THEN {st.name : st \in StatusNamed(Lower(val))}
    ELSE IF StatusSynonym(Lower(val)) # None /\ StatusNamed(StatusSynonym(Lower(val))) # {}
    THEN {st.name : st \in StatusNamed(StatusSynonym(Lower(val)))}
    ELSE {st.name : st \in {w \in rowIn.statuses : w.is_default}}

TypeValues(rec, fm) ==
    { ValStr(rec[j][2]) : j \in {k \in DOMAIN rec :
          /\ IsString(rec[k][1])
          /\ ValStr(rec[k][2]) # None
          /\ DictGet(fm, NormalizeHeader(rec[k][1])) # ""
          /\ TargetOf(DictGet(fm, NormalizeHeader(rec[k][1])),
                      NormalizeHeader(rec[k][1])) = "asset_type_id"} }

\* Record i of the task carries the type value x (lowercased), which no type
\* that existed before the execution has, and all its headers are strings.
CarriesNewType(tk, d, i, x) ==
    /\ \A k \in DOMAIN tk.records[i + 1] : IsString(tk.records[i + 1][k][1])
    /\ \E v \in TypeValues(tk.records[i + 1], tk.sc.opts.mapping) : Lower(v) = x
    /\ ~\E ty \in d.types : ty.by[1] # tk.e /\ Lower(ty.name) = x

\* The lowercased names of the types execution e created.
CreatedTypeNames(d, e) == {Lower(ty.name) : ty \in WrittenBy(d, e).types}

C27_SetNamesUnique ==
    \A s1, s2 \in db.sets : s1.name = s2.name => s1.id = s2.id


\* Column j of the record rec is resolved as the assigned user under fm.
ResolvedAsAssignedUser(rec, fm, j) ==
    /\ IsString(rec[j][1])
    /\ ValStr(rec[j][2]) # None
    /\ DictGet(fm, NormalizeHeader(rec[j][1])) # ""
    /\ TargetOf(DictGet(fm, NormalizeHeader(rec[j][1])),
                NormalizeHeader(rec[j][1])) = "assigned_user_id"

\* C29: when the analysis of a file maps a value of its person column to a
\* user, and the import resolves that column as the assigned user, the asset
\* imported from the record is assigned to that user.
C29_AnalysisAndExecutionAgreeOnPerson ==
    rowOut.done /\ rowIn.kind = "asset" /\ rowIn.rec # <<>> =>
        LET j == FirstPersonColumn([k \in DOMAIN rowIn.rec |-> rowIn.rec[k][1]])
        IN j # 0 /\ ResolvedAsAssignedUser(rowIn.rec, rowIn.fm, j)
               /\ ~rowOut.res.raised =>
               \A m \in UserMatches(<<rowIn.rec>>, j, RowCtx.users) :
                   m[1] = Strip(rowIn.rec[j][2]) =>
                       rowOut.res.data.assigned_user_id = m[2]


\* The fields of a user other than the group, the extra attributes, the name
\* and the model's record of who wrote the row.
FrameOfUser(u) ==
    [id |-> u.id, email |-> u.email, roles |-> u.roles,
     hashed_password |-> u.hashed_password, is_active |-> u.is_active]

\* C30: no step of an import changes the email, the roles, the password
\* hash or the active flag of a user the database already holds, whatever
\* the role column of the file says; an import changes of such a user only
\* the group, the extra attributes and the name.
C30_ImportKeepsCredentials ==
    [][\A u \in db.users : \E w \in db'.users : FrameOfUser(w) = FrameOfUser(u)]_vars

\* A committed user import has updated the seeded administrator from a
\* record whose role column names another role: the name is the file's, the
\* role is still the administrator's.
C30_Witness ==
    \E t \in Tasks :
        /\ task[t].pc = "finish" /\ task[t].sc.kind = "user"
        /\ \E u \in db.users : \E b \in u.by :
               /\ b[1] = task[t].e
               /\ u.id = SeedUser.id
               /\ UserFields(task[t].records[b[2] + 1],
                             task[t].sc.opts.mapping).role_name = <<"i","t">>
               /\ UserFields(task[t].records[b[2] + 1],
                             task[t].sc.opts.mapping).full_name = u.full_name
               /\ u.full_name # SeedUser.full_name
               /\ FrameOfUser(u) = FrameOfUser(SeedUser)


\* The asset_data the row loop of task tk builds from record i when every
\* statement reaches the database.
DataOfRow(tk, i) ==
    AssetRow(tk.records[i + 1], i, tk.sc.opts.mapping, tk.setId, tk.typeMap,
             [dbOk |-> TRUE, users |-> {}, statusMap |-> tk.statusMap]).data

\* Record i of the asset import tk carries a serial number that an asset
\* not of this execution has in the tables d, or that an earlier record of
\* the file carries.
DuplicateSerialAt(tk, d, i) ==
    /\ DataOfRow(tk, i).serial_number # None
    /\ \/ \E a \in d.assets : /\ a.src[1] # tk.e
                             /\ a.serial_number = DataOfRow(tk, i).serial_number
       \/ \E k \in 0..(i - 1) :
              DataOfRow(tk, k).serial_number = DataOfRow(tk, i).serial_number

\* The record with a serial number no asset and no record carries put in
\* every column that resolves to the serial number.
WithFreshSerial(rec, fm) ==
    [k \in DOMAIN rec |->
        IF /\ IsString(rec[k][1])
           /\ DictGet(fm, NormalizeHeader(rec[k][1])) # ""
           /\ TargetOf(DictGet(fm, NormalizeHeader(rec[k][1])),
                       NormalizeHeader(rec[k][1])) = "serial_number"
           /\ ValStr(rec[k][2]) # None
        THEN <<rec[k][1], <<"f","r","e","s","h">>>>
        ELSE rec[k]]

\* The create requests met a taken serial number with the duplicate error
\* and added nothing.
CreateRejectsTakenSerial ==
    \A k \in DOMAIN hist.creates :
        hist.creates[k].taken =>
            /\ hist.creates[k].exc = "DuplicateResource"
            /\ hist.creates[k].added = {}

\* C25: create_asset answers a serial number that an asset already has with
\* the duplicate error and creates nothing, and an asset import records no
\* row error at a record whose serial number an existing asset or an earlier
\* record has, as long as the database itself does not fail.
C25_SerialCheckedOnCreateOnly ==
    /\ CreateRejectsTakenSerial
    /\ \A t \in Tasks :
           /\ envFails = 0
           /\ task[t].sc.kind = "asset" /\ task[t].pc \in {"rows", "finish"} =>
               \A k \in DOMAIN task[t].errors :
                   ~DuplicateSerialAt(task[t], db, task[t].errors[k].row)

\* C25 as the code has it: create_asset adds nothing when the serial number
\* is taken, and raises the duplicate error when the status is valid and
\* the serial number is not empty; the row loop of an asset import treats a
\* record as it would treat the same record with a serial number nobody
\* has: the serial number decides neither the error nor the count.
C25_SerialCheckAsymmetry ==
    /\ \A k \in DOMAIN hist.creates :
           hist.creates[k].taken =>
               /\ hist.creates[k].added = {}
               /\ hist.creates[k].exc # ""
               /\ hist.creates[k].data.status \in db.statuses
                      /\ hist.creates[k].data.serial_number # <<>>
                  => hist.creates[k].exc = "DuplicateResource"
    /\ \A t \in Tasks :
           /\ task[t].sc.kind = "asset" /\ task[t].pc = "rows"
           /\ task[t].i < Len(task[t].records)
           => LET tk == task[t]
                  fresh == [tk EXCEPT !.records[tk.i + 1] =
                               WithFreshSerial(@, tk.sc.opts.mapping)]
              IN /\ AssetRowStep(tk, db, FALSE).errors
                        = AssetRowStep(fresh, db, FALSE).errors
                 /\ AssetRowStep(tk, db, FALSE).imported
                        = AssetRowStep(fresh, db, FALSE).imported

\* A create request was refused because its serial number was taken, and an
\* import counted as imported a record whose serial number an asset already
\* had, and stands before a record with a duplicate serial number.
C25_Witness ==
    /\ \E k \in DOMAIN hist.creates :
           /\ hist.creates[k].taken
           /\ hist.creates[k].exc = "DuplicateResource"
           /\ hist.creates[k].added = {}
    /\ \E t \in Tasks :
           /\ task[t].sc.kind = "asset" /\ task[t].pc = "rows"
           /\ task[t].i < Len(task[t].records)
           /\ DuplicateSerialAt(task[t], db, task[t].i)
           /\ \E i \in task[t].ok :
                  \E a \in db.assets : /\ a.src[1] = 0
                                       /\ a.serial_number = DataOfRow(task[t], i).serial_number


\* The execute request for job j is accepted for the free task t.
Accepted(t, j) ==
    ENABLED Trigger(t, j, [kind |-> "asset", strategy |-> "MERGE", opts |-> BaseOpts])

\* Task t ends its wrapper in this step.
Ends(t) == task[t].pc \in {"finish", "handler"} /\ task'[t].pc = "done"

=============================================================================
